---- MODULE Spec2Model ----
(***************************************************************************)
(* A model of the market-maker core: the order service                     *)
(* (components/order_service.rs), the pub/sub bus (pubsub.rs), the         *)
(* order-book writer (implements/writers/orderbook_writer.rs), the         *)
(* open-orders writer (implements/writers/open_orders_writer.rs) and the   *)
(* market session (implements/exchanges/bitmex/market.rs).                 *)
(* Each component has its own specification over a shared set of           *)
(* variables; a component's actions leave the other components unchanged.  *)
(***************************************************************************)
EXTENDS Integers, Sequences, FiniteSets, TLC

(***************************************************************************)
(* Bounds of the model.                                                    *)
(***************************************************************************)
\* number of OrderService::submit calls explored
MaxSubmits == 2
\* the wall clock runs from 0 to MaxTicks * GC_TICK_MS
MaxTicks == 20
\* number of PubSub::subscribe calls explored
MaxSubs == 2
\* number of PubSub::publish calls explored
MaxPublish == 2
\* number of offers the order book holds, both sides together
MaxOffers == 3
\* number of rows of a partial (snapshot) message of the feed
MaxSnapshotRows == 2
\* number of parsed messages the market feed's network task sends
MaxMessages == 3

(***************************************************************************)
(* Program constants.                                                      *)
(***************************************************************************)
EXPIRES_MS == 20000
GC_TICK_MS == 1000

\* the values published on a topic: the publisher numbers its messages, as
\* tests::test_pubsub does (1, 2, 3, ...)
Msgs == 1..MaxPublish

\* the SubscriptionIds the bounded nonce can hand out
SubIds == 0..MaxSubs - 1

\* the two sides of the book (types/order.rs: Side)
Sides == {"Ask", "Bid"}
\* prices, amounts, offer ids and feed timestamps used by the book ops
Prices == {1, 2}
Amounts == {1, 2}
OfferIds == {"x", "y"}
\* order ids and fill sizes used by the open-orders ops
OrderIds == {"a", "b"}
FilledAmounts == {1, 2, 3}
Timestamps == {1, 2}

\* the orders handed to submit (types/order.rs: Order::New / Order::Cancel)
Orders == {"New", "Cancel"}

VARIABLES
    \* ---- order service ----
    nonce,      \* OrderService.nonce
    pendings,   \* OrderService.pendings: Vec<PendingOrder> under the RwLock
    tasks,      \* the tasks spawned by submit on OrderService.rt, in spawn order
    now,        \* the wall clock (Utc::now().timestamp_millis())
    \* ---- pub/sub topic ----
    ps_nonce,    \* PubSubInner.nonce
    subscribers, \* keys of PubSubInner.subscribers (each holds a Sender and the flag)
    exit,        \* the Arc<AtomicBool> shared by the map entry and the Subscription
    queue,       \* the unbounded channel behind each Subscription.receiver
    alive,       \* the Subscription (and its Receiver) exists and was not dropped
    reader,      \* where the consumer of a Subscription is: idle, in recv(), in iter()
    published,   \* history: every message handed to publish, in order
    delivered,   \* history: per subscription, the publish numbers that were enqueued
    consumed,    \* history: per subscription, the messages its consumer has taken
    sub_at,      \* history: number of publishes made when the subscription was created
    unsub_at,    \* history: <<[at, by]>> once the id left the map, else <<>>
    \* ---- order book ----
    orderbook,   \* the Orderbook the OrderbookWriter borrows: timestamp, asks, bids
    last_applied, \* history: <<timestamp>> of the last op apply() returned Ok for
    \* ---- open orders ----
    open_orders, \* the OpenOrders the OpenOrdersWriter borrows: timestamp, orders
    oo_result,   \* the last OpenOrdersWriter::apply: the op's kind and what it returned
    oo_trail,    \* history: <<[before, id, deleted]>> of a Create and the Delete after it
    \* ---- market session ----
    mk_pc,         \* the updater thread: in receive_orderbook, in its loop, or panicked
    mk_chan,       \* the channel from the network task to the updater thread
    mk_book,       \* the updater's Orderbook: <<>> until receive_orderbook returned it
    mk_sent,       \* history: every ParsedMessage the network task has sent, in order
    mk_orderbooks, \* history: the books published on pubsub_orderbook, in order
    mk_executions, \* history: the executions published on pubsub_execution, in order
    \* ---- bot ----
    bot_pc,      \* Bot::run: in warmup, in its loop, or returned Ok or Err
    bot_test,    \* config.test
    bot_chan,    \* per topic, the messages waiting in the subscription's receiver
    bot_closed,  \* the topics whose sending side is gone
    bot_sent,    \* history: per topic, how many messages were published
    bot_obs,     \* the Observation: warmup's locals, then the struct it returns
    bot_iter,    \* the loop counter i of Bot::run
    bot_log,     \* history: one record per select of the loop
    \* ---- depth based offering ----
    dbo_obs,     \* the observation handed to DepthBasedOffering::evaluate
    dbo_out      \* <<>> until evaluate has returned, then <<its Vec<Order>>>

osVars == <<nonce, pendings, tasks, now>>
psVars == <<ps_nonce, subscribers, exit, queue, alive, reader,
            published, delivered, consumed, sub_at, unsub_at>>
obVars == <<orderbook, last_applied>>
ooVars == <<open_orders, oo_result, oo_trail>>
mkVars == <<mk_pc, mk_chan, mk_book, mk_sent, mk_orderbooks, mk_executions>>
botVars == <<bot_pc, bot_test, bot_chan, bot_closed, bot_sent, bot_obs,
             bot_iter, bot_log>>
dboVars == <<dbo_obs, dbo_out>>
vars == <<osVars, psVars, obVars, ooVars, mkVars, botVars, dboVars>>

(***************************************************************************)
(* Order service                                                           *)
(***************************************************************************)

\* PendingOrder::new(timestamp, id, order)
PendingOrder(timestamp, id, order) ==
    [timestamp |-> timestamp, id |-> id, order |-> order]

\* a gc pass that compares the deadline with the entry's own timestamp
RetainLive_WrongClock(s, t) ==
    LET Live(po) == po.timestamp + EXPIRES_MS > po.timestamp
    IN  SelectSeq(s, Live)

\* a gc pass that keeps the entry whose deadline is the present instant
RetainLive_KeepsAtDeadline(s, t) ==
    LET Live(po) == po.timestamp + EXPIRES_MS >= t
    IN  SelectSeq(s, Live)

\* guard.retain(|po| po.timestamp() + EXPIRES_MS > now)
RetainLive(s, t) ==
    LET Live(po) == po.timestamp + EXPIRES_MS > t
    IN  SelectSeq(s, Live)

\* a removal that drops the oldest entry instead of the entry with the id
RetainNotId_DropsOldest(s, id) ==
    IF s = <<>> THEN s ELSE Tail(s)

\* guard.retain(|po| po.id() != id)
RetainNotId(s, id) ==
    LET Other(po) == po.id # id
    IN  SelectSeq(s, Other)

\* a submit that forgets to advance the nonce
NextNonce_Stuck(n) == n

\* self.nonce += 1
NextNonce(n) == n + 1

\* get_pending_orders(): a clone of the list under the read lock
get_pending_orders == pendings

InitOS ==
    /\ nonce = 0
    /\ pendings = <<>>
    /\ tasks = <<>>
    /\ now = 0

\* OrderService::submit up to its return: stamp, take the nonce, spawn the task.
\* The spawned task has not run yet: its first step is the push.
Submit(order) ==
    /\ Len(tasks) < MaxSubmits
    /\ now + EXPIRES_MS <= MaxTicks * GC_TICK_MS
    /\ LET pending_order == PendingOrder(now, nonce, order)
       IN  tasks' = Append(tasks,
                [po |-> pending_order, pc |-> "push", found |-> FALSE])
    /\ nonce' = NextNonce(nonce)
    /\ UNCHANGED <<pendings, now>>
    /\ UNCHANGED <<psVars, obVars, ooVars, mkVars, botVars, dboVars>>

\* spawned task, first block: guard.push(pending_order)
TaskPush(i) ==
    /\ i \in 1..Len(tasks)
    /\ tasks[i].pc = "push"
    /\ pendings' = Append(pendings, tasks[i].po)
    /\ tasks' = [tasks EXCEPT ![i].pc = "send"]
    /\ UNCHANGED <<nonce, now>>
    /\ UNCHANGED <<psVars, obVars, ooVars, mkVars, botVars, dboVars>>

\* spawned task: broker.submit(order).await returns Accept or Reject
BrokerReply(i) ==
    /\ i \in 1..Len(tasks)
    /\ tasks[i].pc = "send"
    /\ tasks' = [tasks EXCEPT ![i].pc = "remove"]
    /\ UNCHANGED <<nonce, pendings, now>>
    /\ UNCHANGED <<psVars, obVars, ooVars, mkVars, botVars, dboVars>>

\* spawned task, last block: guard.retain(|po| po.id() != id);
\* found records whether the retain dropped anything
TaskRemove(i) ==
    /\ i \in 1..Len(tasks)
    /\ tasks[i].pc = "remove"
    /\ pendings' = RetainNotId(pendings, tasks[i].po.id)
    /\ tasks' = [tasks EXCEPT ![i].pc = "done",
                             ![i].found = Len(pendings') # Len(pendings)]
    /\ UNCHANGED <<nonce, now>>
    /\ UNCHANGED <<psVars, obVars, ooVars, mkVars, botVars, dboVars>>

\* one pass of the gc task after interval.tick()
GcTick ==
    /\ pendings' = RetainLive(pendings, now)
    /\ UNCHANGED <<nonce, tasks, now>>
    /\ UNCHANGED <<psVars, obVars, ooVars, mkVars, botVars, dboVars>>

\* the wall clock advances by one timer period
AdvanceTime ==
    /\ now + GC_TICK_MS <= MaxTicks * GC_TICK_MS
    /\ now' = now + GC_TICK_MS
    /\ UNCHANGED <<nonce, pendings, tasks>>
    /\ UNCHANGED <<psVars, obVars, ooVars, mkVars, botVars, dboVars>>

(***************************************************************************)
(* Pub/sub bus                                                             *)
(***************************************************************************)

\* the iteration orders a HashMap over the key set S may produce
Orderings(S) ==
    {f \in [1..Cardinality(S) -> S] :
        \A i, j \in 1..Cardinality(S) : i # j => f[i] # f[j]}

\* an unsubscribe that raises the flag but leaves the sender in the map
UnsubscribeIn_FlagOnly(st, id) ==
    [subscribers |-> st.subscribers,
     exit |-> IF id \in st.subscribers
              THEN [st.exit EXCEPT ![id] = TRUE] ELSE st.exit]

\* an unsubscribe that raises the flag of every subscription of the topic
UnsubscribeIn_FlagsAll(st, id) ==
    [subscribers |-> st.subscribers \ {id},
     exit |-> IF id \in st.subscribers
              THEN [k \in SubIds |-> st.exit[k] \/ k \in st.subscribers]
              ELSE st.exit]

\* PubSubInner::unsubscribe on st = [subscribers, exit]: raise the flag of the
\* entry if there is one, then remove the entry (dropping its Sender)
UnsubscribeIn(st, id) ==
    [subscribers |-> st.subscribers \ {id},
     exit |-> IF id \in st.subscribers
              THEN [st.exit EXCEPT ![id] = TRUE] ELSE st.exit]

\* sender.send(message) for the subscription id on fs = [queue, disconnected]:
\* the message is enqueued, or the send fails because the Receiver was dropped
Send(fs, id, msg) ==
    IF alive[id]
    THEN [fs EXCEPT !.queue[id] = Append(@, msg)]
    ELSE [fs EXCEPT !.disconnected = Append(@, id)]

\* a fan-out whose final send (the moved message) is left out
SendLast_Skipped(fs, id, msg) == fs

\* a fan-out whose final send is overtaken by the send of a later publish
SendLast_Overtaken(fs, id, msg) ==
    IF alive[id]
    THEN [fs EXCEPT !.queue[id] = <<msg>> \o @]
    ELSE [fs EXCEPT !.disconnected = Append(@, id)]

\* the send of the moved message to the last subscriber of the iteration
SendLast(fs, id, msg) == Send(fs, id, msg)

\* the loop over the first n - 1 subscribers, each sent a clone
RECURSIVE SendClones(_, _, _, _)
SendClones(fs, order, i, msg) ==
    IF i >= Len(order)
    THEN fs
    ELSE SendClones(Send(fs, order[i], msg), order, i + 1, msg)

\* the match of PubSubInner::publish over the subscribers in iteration order
FanOut(order, msg) ==
    LET fs0 == [queue |-> queue, disconnected |-> <<>>]
        n == Len(order)
    IN  IF n = 0 THEN fs0
        ELSE IF n = 1 THEN SendLast(fs0, order[1], msg)
        ELSE SendLast(SendClones(fs0, order, 1, msg), order[n], msg)

\* a publish that collects the failed subscriptions and then forgets them
UnsubscribeAll_Forgets(st, ids) == st

\* for id in &disconnected { self.unsubscribe(id) }
RECURSIVE UnsubscribeEach(_, _)
UnsubscribeEach(st, ids) ==
    IF ids = <<>> THEN st
    ELSE UnsubscribeEach(UnsubscribeIn(st, Head(ids)), Tail(ids))

\* the unsubscribe loop that ends PubSubInner::publish
UnsubscribeAll(st, ids) == UnsubscribeEach(st, ids)

\* Subscription::check_connection
CheckConnection(id) == IF exit[id] THEN "Disconnected" ELSE "Ok"

\* a raw receiver that goes through check_connection like recv does
RawRecvResult_Checked(id) ==
    IF exit[id] THEN "Disconnected"
    ELSE IF queue[id] # <<>> THEN "Ok"
    ELSE IF id \notin subscribers THEN "RecvError"
    ELSE "Block"

\* what a receive on as_receiver() does: a queued message is handed out even
\* when the Sender is gone; an empty queue whose Sender is gone is an error
RawRecvResult(id) ==
    IF queue[id] # <<>> THEN "Ok"
    ELSE IF id \notin subscribers THEN "RecvError"
    ELSE "Block"

\* the history entries a step adds for the messages it enqueued
Record(q2, num) ==
    [id \in SubIds |->
        delivered[id] \o [k \in 1..(Len(q2[id]) - Len(queue[id])) |-> num]]

\* the ids of a sequence
Ids(seq) == {seq[k] : k \in 1..Len(seq)}

\* the history entry of the ids a step called unsubscribe for (the first call
\* for a subscription that exists is the one recorded)
Mark(ids, at, by) ==
    [id \in SubIds |->
        IF id \in ids /\ id < ps_nonce /\ unsub_at[id] = <<>>
        THEN <<[at |-> at, by |-> by]>> ELSE unsub_at[id]]

InitPS ==
    /\ ps_nonce = 0
    /\ subscribers = {}
    /\ exit = [id \in SubIds |-> FALSE]
    /\ queue = [id \in SubIds |-> <<>>]
    /\ alive = [id \in SubIds |-> FALSE]
    /\ reader = [id \in SubIds |-> "idle"]
    /\ published = <<>>
    /\ delivered = [id \in SubIds |-> <<>>]
    /\ consumed = [id \in SubIds |-> <<>>]
    /\ sub_at = [id \in SubIds |-> 0]
    /\ unsub_at = [id \in SubIds |-> <<>>]

\* PubSub::subscribe
Subscribe ==
    /\ ps_nonce < MaxSubs
    /\ LET id == ps_nonce
       IN  /\ subscribers' = subscribers \cup {id}
           /\ alive' = [alive EXCEPT ![id] = TRUE]
           /\ sub_at' = [sub_at EXCEPT ![id] = Len(published)]
    /\ ps_nonce' = ps_nonce + 1
    /\ UNCHANGED <<exit, queue, reader, published, delivered,
                   consumed, unsub_at>>
    /\ UNCHANGED <<osVars, obVars, ooVars, mkVars, botVars, dboVars>>

\* PubSub::unsubscribe(id), for any id the caller may hold
Unsubscribe(id) ==
    /\ LET st == UnsubscribeIn([subscribers |-> subscribers, exit |-> exit], id)
       IN  /\ subscribers' = st.subscribers
           /\ exit' = st.exit
           /\ unsub_at' = Mark({id}, Len(published), "unsubscribe")
    /\ UNCHANGED <<ps_nonce, queue, alive, reader, published,
                   delivered, consumed, sub_at>>
    /\ UNCHANGED <<osVars, obVars, ooVars, mkVars, botVars, dboVars>>

\* PubSub::publish(message): the fan-out and the collection of the failed
\* subscriptions, all under the topic's mutex
Publish(msg) ==
    /\ Len(published) < MaxPublish
    /\ msg = Len(published) + 1
    /\ \E order \in Orderings(subscribers) :
          LET fs == FanOut(order, msg)
              st == UnsubscribeAll([subscribers |-> subscribers, exit |-> exit],
                                   fs.disconnected)
          IN  /\ queue' = fs.queue
              /\ subscribers' = st.subscribers
              /\ exit' = st.exit
              /\ delivered' = Record(fs.queue, Len(published) + 1)
              /\ unsub_at' = Mark(Ids(fs.disconnected), Len(published) + 1,
                                   "publish")
    /\ published' = Append(published, msg)
    /\ UNCHANGED <<ps_nonce, alive, reader, consumed, sub_at>>
    /\ UNCHANGED <<osVars, obVars, ooVars, mkVars, botVars, dboVars>>

\* what Subscription::recv returns when called in this state and not made
\* to wait: check_connection first, then the receive
RecvResult(id) ==
    IF CheckConnection(id) # "Ok" THEN CheckConnection(id)
    ELSE IF RawRecvResult(id) = "RecvError" THEN "SubscriptionError"
    ELSE RawRecvResult(id)

\* what Subscription::iter and Subscription::try_iter return: the error of
\* check_connection, or Ok with the iterator
IterResult(id) == CheckConnection(id)

\* Subscription::recv up to the blocking receive: check_connection, then
\* either the error is returned or the call waits in receiver.recv()
RecvStart(id) ==
    /\ alive[id] /\ reader[id] = "idle"
    /\ reader' = [reader EXCEPT ![id] =
                     IF CheckConnection(id) = "Ok" THEN "recv" ELSE "idle"]
    /\ UNCHANGED <<ps_nonce, subscribers, exit, queue, alive, published,
                   delivered, consumed, sub_at, unsub_at>>
    /\ UNCHANGED <<osVars, obVars, ooVars, mkVars, botVars, dboVars>>

\* Subscription::recv: receiver.recv() returns a message, or an error mapped
\* to SubscriptionError when the queue is empty and the Sender is gone
RecvFinish(id) ==
    /\ alive[id] /\ reader[id] = "recv"
    /\ RawRecvResult(id) # "Block"
    /\ IF RawRecvResult(id) = "Ok"
       THEN /\ queue' = [queue EXCEPT ![id] = Tail(@)]
            /\ consumed' = [consumed EXCEPT ![id] = Append(@, Head(queue[id]))]
       ELSE UNCHANGED <<queue, consumed>>
    /\ reader' = [reader EXCEPT ![id] = "idle"]
    /\ UNCHANGED <<ps_nonce, subscribers, exit, alive, published, delivered,
                   sub_at, unsub_at>>
    /\ UNCHANGED <<osVars, obVars, ooVars, mkVars, botVars, dboVars>>

\* Subscription::iter: check_connection, then the blocking iterator
IterStart(id) ==
    /\ alive[id] /\ reader[id] = "idle"
    /\ reader' = [reader EXCEPT ![id] =
                     IF IterResult(id) = "Ok" THEN "iter" ELSE "idle"]
    /\ UNCHANGED <<ps_nonce, subscribers, exit, queue, alive, published,
                   delivered, consumed, sub_at, unsub_at>>
    /\ UNCHANGED <<osVars, obVars, ooVars, mkVars, botVars, dboVars>>

\* next() of the iterator of Subscription::iter: a message, or the end of the
\* iteration when the queue is empty and the Sender is gone
IterNext(id) ==
    /\ alive[id] /\ reader[id] = "iter"
    /\ RawRecvResult(id) # "Block"
    /\ IF RawRecvResult(id) = "Ok"
       THEN /\ queue' = [queue EXCEPT ![id] = Tail(@)]
            /\ consumed' = [consumed EXCEPT ![id] = Append(@, Head(queue[id]))]
            /\ UNCHANGED reader
       ELSE /\ reader' = [reader EXCEPT ![id] = "idle"]
            /\ UNCHANGED <<queue, consumed>>
    /\ UNCHANGED <<ps_nonce, subscribers, exit, alive, published, delivered,
                   sub_at, unsub_at>>
    /\ UNCHANGED <<osVars, obVars, ooVars, mkVars, botVars, dboVars>>

\* the consumer drops the iterator of Subscription::iter
IterStop(id) ==
    /\ alive[id] /\ reader[id] = "iter"
    /\ reader' = [reader EXCEPT ![id] = "idle"]
    /\ UNCHANGED <<ps_nonce, subscribers, exit, queue, alive,
                   published, delivered, consumed, sub_at, unsub_at>>
    /\ UNCHANGED <<osVars, obVars, ooVars, mkVars, botVars, dboVars>>

\* Subscription::try_iter, collected: check_connection, then everything queued
TryIter(id) ==
    /\ alive[id] /\ reader[id] = "idle"
    /\ IF IterResult(id) = "Ok"
       THEN /\ consumed' = [consumed EXCEPT ![id] = @ \o queue[id]]
            /\ queue' = [queue EXCEPT ![id] = <<>>]
       ELSE UNCHANGED <<queue, consumed>>
    /\ UNCHANGED <<ps_nonce, subscribers, exit, alive, reader, published,
                   delivered, sub_at, unsub_at>>
    /\ UNCHANGED <<osVars, obVars, ooVars, mkVars, botVars, dboVars>>

\* a receive on Subscription::as_receiver() (the decision loop's select)
RawRecv(id) ==
    /\ alive[id] /\ reader[id] = "idle"
    /\ RawRecvResult(id) # "Block"
    /\ IF RawRecvResult(id) = "Ok"
       THEN /\ queue' = [queue EXCEPT ![id] = Tail(@)]
            /\ consumed' = [consumed EXCEPT ![id] = Append(@, Head(queue[id]))]
       ELSE UNCHANGED <<queue, consumed>>
    /\ UNCHANGED <<ps_nonce, subscribers, exit, alive, reader, published,
                   delivered, sub_at, unsub_at>>
    /\ UNCHANGED <<osVars, obVars, ooVars, mkVars, botVars, dboVars>>

\* the consumer drops its Subscription: the Receiver and what it queued are gone
DropSubscription(id) ==
    /\ alive[id] /\ reader[id] = "idle"
    /\ alive' = [alive EXCEPT ![id] = FALSE]
    /\ queue' = [queue EXCEPT ![id] = <<>>]
    /\ UNCHANGED <<ps_nonce, subscribers, exit, reader, published,
                   delivered, consumed, sub_at, unsub_at>>
    /\ UNCHANGED <<osVars, obVars, ooVars, mkVars, botVars, dboVars>>

NextPubSub ==
    \/ Subscribe
    \/ \E id \in SubIds : Unsubscribe(id)
    \/ \E msg \in Msgs : Publish(msg)
    \/ \E id \in SubIds : RecvStart(id)
    \/ \E id \in SubIds : RecvFinish(id)
    \/ \E id \in SubIds : IterStart(id)
    \/ \E id \in SubIds : IterNext(id)
    \/ \E id \in SubIds : IterStop(id)
    \/ \E id \in SubIds : TryIter(id)
    \/ \E id \in SubIds : RawRecv(id)
    \/ \E id \in SubIds : DropSubscription(id)

(***************************************************************************)
(* Order-book writer                                                       *)
(***************************************************************************)

\* Offer::new(id, price, amount)
Offer(id, price, amount) == [id |-> id, price |-> price, amount |-> amount]

\* Orderbook::new(timestamp, asks, bids)
Orderbook(timestamp, asks, bids) ==
    [timestamp |-> timestamp, asks |-> asks, bids |-> bids]

\* Option<T>: None is <<>>, Some(v) is <<v>>
Option(S) == {<<>>} \cup {<<v>> : v \in S}

\* vec.insert(index, x), index counted from 1
InsertAt(seq, index, x) ==
    SubSeq(seq, 1, index - 1) \o <<x>> \o SubSeq(seq, index, Len(seq))

\* vec.remove(index), index counted from 1
RemoveAt(seq, index) ==
    SubSeq(seq, 1, index - 1) \o SubSeq(seq, index + 1, Len(seq))

\* iter().position(pred): the first index whose element satisfies pred, or 0
Position(seq, pred(_)) ==
    IF \E i \in 1..Len(seq) : pred(seq[i])
    THEN CHOOSE i \in 1..Len(seq) :
            pred(seq[i]) /\ \A j \in 1..(i - 1) : ~pred(seq[j])
    ELSE 0

\* an insertion that searches the bids with the comparison of the asks
CreateIndex_AskComparisonForBids(side, offers, price) ==
    LET Beyond(offer) == offer.price > price
        index == Position(offers, Beyond)
    IN  IF index = 0 THEN Len(offers) + 1 ELSE index

\* a create that goes in front of the offers of its own price
CreateIndex_BeforeEqual(side, offers, price) ==
    LET Beyond(offer) == IF side = "Ask" THEN offer.price >= price
                         ELSE offer.price <= price
        index == Position(offers, Beyond)
    IN  IF index = 0 THEN Len(offers) + 1 ELSE index

\* apply_create: position(|offer| offer.price() > op.price()) for the asks,
\* position(|offer| offer.price() < op.price()) for the bids,
\* unwrap_or(len)
CreateIndex(side, offers, price) ==
    LET Beyond(offer) == IF side = "Ask" THEN offer.price > price
                         ELSE offer.price < price
        index == Position(offers, Beyond)
    IN  IF index = 0 THEN Len(offers) + 1 ELSE index

\* the side of a book a write goes to
SideOf(bk, side) == IF side = "Ask" THEN bk.asks ELSE bk.bids

\* the book with one side replaced
WithSide(bk, side, offers) ==
    IF side = "Ask" THEN [bk EXCEPT !.asks = offers]
    ELSE [bk EXCEPT !.bids = offers]

\* OrderbookWriter::apply_snapshot
ApplySnapshot(bk, snapshot) == [ok |-> TRUE, err |-> "", book |-> snapshot]

\* OrderbookWriter::apply_create
ApplyCreate(bk, op) ==
    LET offers == SideOf(bk, op.side)
        index == CreateIndex(op.side, offers, op.price)
        offer == Offer(op.id, op.price, op.amount)
        inserted == WithSide(bk, op.side, InsertAt(offers, index, offer))
    IN  [ok |-> TRUE, err |-> "",
         book |-> [inserted EXCEPT !.timestamp = op.timestamp]]

\* OrderbookWriter::apply_update: the offer is removed, patched and applied
\* again as a Create
ApplyUpdate(bk, op) ==
    LET offers == SideOf(bk, op.side)
        HasId(offer) == offer.id = op.id
        index == Position(offers, HasId)
    IN  IF index = 0
        THEN [ok |-> FALSE, err |-> "OfferNotFound", book |-> bk]
        ELSE LET old == offers[index]
                 price == IF op.price # <<>> THEN op.price[1] ELSE old.price
                 amount == IF op.amount # <<>> THEN op.amount[1] ELSE old.amount
                 removed == WithSide(bk, op.side, RemoveAt(offers, index))
                 create_op == [timestamp |-> op.timestamp, side |-> op.side,
                               id |-> op.id, price |-> price, amount |-> amount]
                 created == ApplyCreate(removed, create_op)
             IN  [ok |-> created.ok, err |-> created.err,
                  book |-> IF created.ok
                           THEN [created.book EXCEPT !.timestamp = op.timestamp]
                           ELSE created.book]

\* a delete that removes the offer and leaves the book's timestamp alone
ApplyDelete_KeepsTimestamp(bk, op) ==
    LET offers == SideOf(bk, op.side)
        HasId(offer) == offer.id = op.id
        index == Position(offers, HasId)
    IN  IF index = 0
        THEN [ok |-> FALSE, err |-> "OfferNotFound", book |-> bk]
        ELSE [ok |-> TRUE, err |-> "",
              book |-> WithSide(bk, op.side, RemoveAt(offers, index))]

\* OrderbookWriter::apply_delete
ApplyDelete(bk, op) ==
    LET offers == SideOf(bk, op.side)
        HasId(offer) == offer.id = op.id
        index == Position(offers, HasId)
    IN  IF index = 0
        THEN [ok |-> FALSE, err |-> "OfferNotFound", book |-> bk]
        ELSE [ok |-> TRUE, err |-> "",
              book |-> [WithSide(bk, op.side, RemoveAt(offers, index))
                            EXCEPT !.timestamp = op.timestamp]]

\* the rows of a partial message: side and price; the feed's level id stands
\* for the price, the size is 1; the feed has one row per side and level
SnapshotRows ==
    {rows \in UNION {[1..n -> [side : Sides, price : Prices]] :
                        n \in 0..MaxSnapshotRows} :
        \A i, j \in 1..Len(rows) : i # j => rows[i] # rows[j]}

\* the level id the feed gives a price
LevelId(price) == IF price = 1 THEN "x" ELSE "y"

\* sort_by_key of a Vec of offers, the key being sign * price: stable,
\* ascending in the key
RECURSIVE SortByKey(_, _)
SortByKey(seq, sign) ==
    IF seq = <<>> THEN <<>>
    ELSE LET sorted == SortByKey(SubSeq(seq, 1, Len(seq) - 1), sign)
             x == seq[Len(seq)]
             After(y) == sign * y.price > sign * x.price
             index == Position(sorted, After)
         IN  InsertAt(sorted, IF index = 0 THEN Len(sorted) + 1 ELSE index, x)

\* parse_orderbook_ops, Action::Partial: the rows split by side, the asks
\* sorted by price and the bids by -price
ParsePartial(rows, timestamp) ==
    LET IsAsk(row) == row.side = "Ask"
        IsBid(row) == row.side = "Bid"
        ToOffer(part) ==
            [k \in 1..Len(part) |->
                Offer(LevelId(part[k].price), part[k].price, 1)]
    IN  Orderbook(timestamp,
                  SortByKey(ToOffer(SelectSeq(rows, IsAsk)), 1),
                  SortByKey(ToOffer(SelectSeq(rows, IsBid)), 0 - 1))

\* Orderbook::default()
InitOB ==
    /\ orderbook = Orderbook(0, <<>>, <<>>)
    /\ last_applied = <<>>

\* the OrderbookWriterResult of an apply: Ok(()) or Err(error)
Returned(result) == IF result.ok THEN "Ok" ELSE result.err

\* the history of successful writes after apply() returned result for an op
\* of the given timestamp
Applied(result, timestamp) ==
    IF result.ok THEN <<timestamp>> ELSE last_applied

\* apply(OrderbookWriteOp::Snapshot(book)) with the book parsed from a partial
WriteSnapshot(rows, timestamp) ==
    /\ LET result == ApplySnapshot(orderbook, ParsePartial(rows, timestamp))
       IN  /\ orderbook' = result.book
           /\ last_applied' = Applied(result, ParsePartial(rows, timestamp).timestamp)
    /\ UNCHANGED <<osVars, psVars, ooVars, mkVars, botVars, dboVars>>

\* apply(OrderbookWriteOp::Create(op))
WriteCreate(op) ==
    /\ Len(orderbook.asks) + Len(orderbook.bids) < MaxOffers
    /\ LET result == ApplyCreate(orderbook, op)
       IN  /\ orderbook' = result.book
           /\ last_applied' = Applied(result, op.timestamp)
    /\ UNCHANGED <<osVars, psVars, ooVars, mkVars, botVars, dboVars>>

\* apply(OrderbookWriteOp::Update(op))
WriteUpdate(op) ==
    /\ LET result == ApplyUpdate(orderbook, op)
       IN  /\ orderbook' = result.book
           /\ last_applied' = Applied(result, op.timestamp)
    /\ UNCHANGED <<osVars, psVars, ooVars, mkVars, botVars, dboVars>>

\* apply(OrderbookWriteOp::Delete(op))
WriteDelete(op) ==
    /\ LET result == ApplyDelete(orderbook, op)
       IN  /\ orderbook' = result.book
           /\ last_applied' = Applied(result, op.timestamp)
    /\ UNCHANGED <<osVars, psVars, ooVars, mkVars, botVars, dboVars>>

CreateOps ==
    [timestamp : Timestamps, side : Sides, id : OfferIds,
     price : Prices, amount : Amounts]
UpdateOps ==
    [timestamp : Timestamps, side : Sides, id : OfferIds,
     price : Option(Prices), amount : Option(Amounts)]
DeleteOps == [timestamp : Timestamps, side : Sides, id : OfferIds]

NextOrderbook ==
    \/ \E rows \in SnapshotRows, timestamp \in Timestamps :
          WriteSnapshot(rows, timestamp)
    \/ \E op \in CreateOps : WriteCreate(op)
    \/ \E op \in UpdateOps : WriteUpdate(op)
    \/ \E op \in DeleteOps : WriteDelete(op)

(***************************************************************************)
(* Open-orders writer (implements/writers/open_orders_writer.rs).          *)
(***************************************************************************)

\* OrderState::new(id, side, price, amount)
OrderState(id, side, price, amount) ==
    [id |-> id, side |-> side, price |-> price, amount |-> amount]

\* OpenOrders::new(timestamp, orders)
OpenOrders(timestamp, orders) == [timestamp |-> timestamp, orders |-> orders]

\* OpenOrdersWriter::apply_snapshot
OpenOrdersApplySnapshot(oo, snapshot) ==
    [ok |-> TRUE, err |-> "", state |-> snapshot]

\* a create that puts the new order in front of the others
OpenOrdersApplyCreate_Prepends(oo, op) ==
    IF \E k \in 1..Len(oo.orders) : oo.orders[k].id = op.order.id
    THEN [ok |-> FALSE, err |-> "AlreadyExists", state |-> oo]
    ELSE [ok |-> TRUE, err |-> "",
          state |-> OpenOrders(op.timestamp, <<op.order>> \o oo.orders)]

\* a create that pushes without looking for the id
OpenOrdersApplyCreate_NoLookup(oo, op) ==
    [ok |-> TRUE, err |-> "",
     state |-> OpenOrders(op.timestamp, Append(oo.orders, op.order))]

\* OpenOrdersWriter::apply_create
OpenOrdersApplyCreate(oo, op) ==
    IF \E k \in 1..Len(oo.orders) : oo.orders[k].id = op.order.id
    THEN [ok |-> FALSE, err |-> "AlreadyExists", state |-> oo]
    ELSE [ok |-> TRUE, err |-> "",
          state |-> OpenOrders(op.timestamp, Append(oo.orders, op.order))]

\* an update that stamps the container before it looks for the order
OpenOrdersApplyUpdate_StampsFirst(oo, op) ==
    LET HasId(o) == o.id = op.id
        index == Position(oo.orders, HasId)
    IN  IF index = 0
        THEN [ok |-> FALSE, err |-> "OrderNotFound",
              state |-> [oo EXCEPT !.timestamp = op.timestamp]]
        ELSE [ok |-> TRUE, err |-> "",
              state |-> OpenOrders(op.timestamp,
                  [oo.orders EXCEPT
                      ![index].side = IF op.side # <<>> THEN op.side[1] ELSE @,
                      ![index].price = IF op.price # <<>> THEN op.price[1] ELSE @,
                      ![index].amount = IF op.amount # <<>> THEN op.amount[1] ELSE @])]

\* OpenOrdersWriter::apply_update: iter_mut().find by id, then the fields the
\* op carries are overwritten
OpenOrdersApplyUpdate(oo, op) ==
    LET HasId(o) == o.id = op.id
        index == Position(oo.orders, HasId)
    IN  IF index = 0
        THEN [ok |-> FALSE, err |-> "OrderNotFound", state |-> oo]
        ELSE [ok |-> TRUE, err |-> "",
              state |-> OpenOrders(op.timestamp,
                  [oo.orders EXCEPT
                      ![index].side = IF op.side # <<>> THEN op.side[1] ELSE @,
                      ![index].price = IF op.price # <<>> THEN op.price[1] ELSE @,
                      ![index].amount = IF op.amount # <<>> THEN op.amount[1] ELSE @])]

\* a delete that, the id being present, removes the oldest order
OpenOrdersApplyDelete_RemovesFirst(oo, op) ==
    LET HasId(o) == o.id = op.id
        index == Position(oo.orders, HasId)
    IN  IF index = 0
        THEN [ok |-> FALSE, err |-> "OrderNotFound", state |-> oo]
        ELSE [ok |-> TRUE, err |-> "",
              state |-> OpenOrders(op.timestamp, RemoveAt(oo.orders, 1))]

\* OpenOrdersWriter::apply_delete
OpenOrdersApplyDelete(oo, op) ==
    LET HasId(o) == o.id = op.id
        index == Position(oo.orders, HasId)
    IN  IF index = 0
        THEN [ok |-> FALSE, err |-> "OrderNotFound", state |-> oo]
        ELSE [ok |-> TRUE, err |-> "",
              state |-> OpenOrders(op.timestamp, RemoveAt(oo.orders, index))]

\* an execution that keeps an order whose remaining amount reached zero
OpenOrdersApplyExecution_KeepsEmptied(oo, op) ==
    LET HasId(o) == o.id = op.id
        index == Position(oo.orders, HasId)
    IN  IF index = 0
        THEN [ok |-> FALSE, err |-> "OrderNotFound", state |-> oo]
        ELSE IF oo.orders[index].amount < op.amount
        THEN [ok |-> FALSE, err |-> "InsufficientAmount", state |-> oo]
        ELSE [ok |-> TRUE, err |-> "",
              state |-> OpenOrders(op.timestamp,
                  [oo.orders EXCEPT ![index].amount = @ - op.amount])]

\* OpenOrdersWriter::apply_execution
OpenOrdersApplyExecution(oo, op) ==
    LET HasId(o) == o.id = op.id
        index == Position(oo.orders, HasId)
    IN  IF index = 0
        THEN [ok |-> FALSE, err |-> "OrderNotFound", state |-> oo]
        ELSE IF oo.orders[index].amount < op.amount
        THEN [ok |-> FALSE, err |-> "InsufficientAmount", state |-> oo]
        ELSE LET reduced == [oo.orders EXCEPT ![index].amount = @ - op.amount]
             IN  [ok |-> TRUE, err |-> "",
                  state |-> OpenOrders(op.timestamp,
                      IF reduced[index].amount = 0
                      THEN RemoveAt(reduced, index)
                      ELSE reduced)]

\* the order states the feed and the ops carry
OrderStates ==
    {OrderState(id, side, price, amount) :
        id \in OrderIds, side \in Sides, price \in Prices, amount \in Amounts}

\* the rows of a partial message of the order table: the row's timestamp and
\* its order; the exchange lists an order once
OpenOrdersRows ==
    {rows \in UNION {[1..n -> [timestamp : Timestamps, order : OrderStates]] :
                        n \in 0..Cardinality(OrderIds)} :
        \A i, j \in 1..Len(rows) : i # j => rows[i].order.id # rows[j].order.id}

\* parse_open_orders_ops, Action::Partial: the latest of the rows' timestamps
\* (0 for no rows)
RECURSIVE Latest(_)
Latest(rows) ==
    IF rows = <<>> THEN 0
    ELSE LET latest == Latest(SubSeq(rows, 1, Len(rows) - 1))
             timestamp == rows[Len(rows)].timestamp
         IN  IF timestamp > latest THEN timestamp ELSE latest

\* parse_open_orders_ops, Action::Partial
ParseOpenOrdersPartial(rows) ==
    OpenOrders(Latest(rows), [k \in 1..Len(rows) |-> rows[k].order])

\* the container before the status session has its first snapshot; the tests
\* build theirs with OpenOrders::new(0, ...)
InitOO ==
    /\ open_orders = OpenOrders(0, <<>>)
    /\ oo_result = [op |-> "None", returned |-> "Ok"]
    /\ oo_trail = <<>>

\* the history of a Create and the Delete of the same id that follows it,
\* after an op of the given kind returned result
Trail(kind, id, result) ==
    IF ~result.ok THEN oo_trail
    ELSE IF kind = "Create"
    THEN <<[before |-> open_orders.orders, id |-> id, deleted |-> FALSE]>>
    ELSE IF /\ kind = "Delete"
            /\ oo_trail # <<>>
            /\ ~oo_trail[1].deleted
            /\ oo_trail[1].id = id
    THEN <<[oo_trail[1] EXCEPT !.deleted = TRUE]>>
    ELSE <<>>

\* apply(OpenOrdersWriteOp::Snapshot(orders)) with the orders parsed from a
\* partial
OpenOrdersWriteSnapshot(rows) ==
    /\ LET result == OpenOrdersApplySnapshot(open_orders,
                                             ParseOpenOrdersPartial(rows))
       IN  /\ open_orders' = result.state
           /\ oo_result' = [op |-> "Snapshot", returned |-> Returned(result)]
           /\ oo_trail' = Trail("Snapshot", "", result)
    /\ UNCHANGED <<osVars, psVars, obVars, mkVars, botVars, dboVars>>

\* apply(OpenOrdersWriteOp::Create(op))
OpenOrdersWriteCreate(op) ==
    /\ LET result == OpenOrdersApplyCreate(open_orders, op)
       IN  /\ open_orders' = result.state
           /\ oo_result' = [op |-> "Create", returned |-> Returned(result)]
           /\ oo_trail' = Trail("Create", op.order.id, result)
    /\ UNCHANGED <<osVars, psVars, obVars, mkVars, botVars, dboVars>>

\* apply(OpenOrdersWriteOp::Update(op))
OpenOrdersWriteUpdate(op) ==
    /\ LET result == OpenOrdersApplyUpdate(open_orders, op)
       IN  /\ open_orders' = result.state
           /\ oo_result' = [op |-> "Update", returned |-> Returned(result)]
           /\ oo_trail' = Trail("Update", op.id, result)
    /\ UNCHANGED <<osVars, psVars, obVars, mkVars, botVars, dboVars>>

\* apply(OpenOrdersWriteOp::Delete(op))
OpenOrdersWriteDelete(op) ==
    /\ LET result == OpenOrdersApplyDelete(open_orders, op)
       IN  /\ open_orders' = result.state
           /\ oo_result' = [op |-> "Delete", returned |-> Returned(result)]
           /\ oo_trail' = Trail("Delete", op.id, result)
    /\ UNCHANGED <<osVars, psVars, obVars, mkVars, botVars, dboVars>>

\* apply(OpenOrdersWriteOp::Execution(op))
OpenOrdersWriteExecution(op) ==
    /\ LET result == OpenOrdersApplyExecution(open_orders, op)
       IN  /\ open_orders' = result.state
           /\ oo_result' = [op |-> "Execution", returned |-> Returned(result)]
           /\ oo_trail' = Trail("Execution", op.id, result)
    /\ UNCHANGED <<osVars, psVars, obVars, mkVars, botVars, dboVars>>

OpenOrdersCreateOps == [timestamp : Timestamps, order : OrderStates]
OpenOrdersUpdateOps ==
    [timestamp : Timestamps, id : OrderIds, side : Option(Sides),
     price : Option(Prices), amount : Option(Amounts)]
OpenOrdersDeleteOps == [timestamp : Timestamps, id : OrderIds]
OpenOrdersExecutionOps ==
    [timestamp : Timestamps, id : OrderIds, amount : FilledAmounts]

NextOpenOrders ==
    \/ \E rows \in OpenOrdersRows : OpenOrdersWriteSnapshot(rows)
    \/ \E op \in OpenOrdersCreateOps : OpenOrdersWriteCreate(op)
    \/ \E op \in OpenOrdersUpdateOps : OpenOrdersWriteUpdate(op)
    \/ \E op \in OpenOrdersDeleteOps : OpenOrdersWriteDelete(op)
    \/ \E op \in OpenOrdersExecutionOps : OpenOrdersWriteExecution(op)

(***************************************************************************)
(* The two writers side by side, as the market session and the status      *)
(* session run them, each fed with the ops of a feed that quotes one ask   *)
(* level and places ask orders of one price and one amount.                *)
(***************************************************************************)
WritersCreateOps ==
    {op \in CreateOps : op.side = "Ask" /\ op.price = 1 /\ op.amount = 1}
WritersUpdateOps ==
    {op \in UpdateOps : op.side = "Ask" /\ op.price = <<>> /\ op.amount = <<>>}
WritersDeleteOps == {op \in DeleteOps : op.side = "Ask"}
WritersOrderCreateOps ==
    {op \in OpenOrdersCreateOps :
        op.order.side = "Ask" /\ op.order.price = 1 /\ op.order.amount = 1}
WritersOrderUpdateOps ==
    {op \in OpenOrdersUpdateOps :
        op.side = <<>> /\ op.price = <<>> /\ op.amount = <<>>}
WritersOrderExecutionOps == {op \in OpenOrdersExecutionOps : op.amount = 1}

NextWriters ==
    \/ \E op \in WritersCreateOps : WriteCreate(op)
    \/ \E op \in WritersUpdateOps : WriteUpdate(op)
    \/ \E op \in WritersDeleteOps : WriteDelete(op)
    \/ \E op \in WritersOrderCreateOps : OpenOrdersWriteCreate(op)
    \/ \E op \in WritersOrderUpdateOps : OpenOrdersWriteUpdate(op)
    \/ \E op \in OpenOrdersDeleteOps : OpenOrdersWriteDelete(op)
    \/ \E op \in WritersOrderExecutionOps : OpenOrdersWriteExecution(op)

(***************************************************************************)
(* Market session (implements/exchanges/bitmex/market.rs): the network     *)
(* task sends parsed messages over a channel, the updater thread builds    *)
(* the initial book, then applies book batches and publishes.              *)
(***************************************************************************)

\* OrderbookWriter::apply: the op is a Snapshot, a Create, an Update or a
\* Delete
Apply(bk, wop) ==
    CASE wop.kind = "Snapshot" -> ApplySnapshot(bk, wop.arg)
      [] wop.kind = "Create" -> ApplyCreate(bk, wop.arg)
      [] wop.kind = "Update" -> ApplyUpdate(bk, wop.arg)
      [] wop.kind = "Delete" -> ApplyDelete(bk, wop.arg)

\* for op in ops { writer.apply(op)? }: the ops applied in order up to the
\* first error
RECURSIVE ApplyEach(_, _)
ApplyEach(bk, ops) ==
    IF ops = <<>> THEN [ok |-> TRUE, err |-> "", book |-> bk]
    ELSE LET result == Apply(bk, Head(ops))
         IN  IF result.ok THEN ApplyEach(result.book, Tail(ops)) ELSE result

\* the book ops of the feed: the snapshot of an empty book, and the insert
\* and the removal of one ask level
MarketOps ==
    {[kind |-> "Snapshot", arg |-> ParsePartial(<<>>, 1)]}
    \cup {[kind |-> "Create", arg |-> op] :
             op \in {o \in CreateOps : /\ o.timestamp = 2 /\ o.side = "Ask"
                                      /\ o.id = "x" /\ o.price = 1
                                      /\ o.amount = 1}}
    \cup {[kind |-> "Delete", arg |-> op] :
             op \in {o \in DeleteOps : /\ o.timestamp = 2 /\ o.side = "Ask"
                                      /\ o.id = "x"}}

\* ParsedMessage::Orderbook(ops): batches of one or two ops
OrderbookMessages ==
    {[table |-> "Orderbook", data |-> <<a>>] : a \in MarketOps}
    \cup {[table |-> "Orderbook", data |-> <<a, b>>] : a, b \in MarketOps}

\* the trade events of the messages sent so far, in order; an event is
\* modelled by its TradeId, and the exchange numbers the trades 1, 2, ...
RECURSIVE TradesOf(_)
TradesOf(msgs) ==
    IF msgs = <<>> THEN <<>>
    ELSE LET m == msgs[Len(msgs)]
             earlier == TradesOf(SubSeq(msgs, 1, Len(msgs) - 1))
         IN  IF m.table = "Execution" THEN earlier \o m.data ELSE earlier

\* ParsedMessage::Execution(executions): one or two new trade events
ExecutionMessages ==
    LET next == Len(TradesOf(mk_sent)) + 1
    IN  {[table |-> "Execution", data |-> <<next>>],
         [table |-> "Execution", data |-> <<next, next + 1>>]}

\* BitMEXMarket::connect up to the spawn of the updater thread
InitMK ==
    /\ mk_pc = "receive_orderbook"
    /\ mk_chan = <<>>
    /\ mk_book = <<>>
    /\ mk_sent = <<>>
    /\ mk_orderbooks = <<>>
    /\ mk_executions = <<>>

\* start_websocket: a message of the feed was parsed and is sent to the
\* updater; the send fails once the updater (the Receiver) is gone
NetworkSend(parsed) ==
    /\ Len(mk_sent) < MaxMessages
    /\ mk_pc # "panicked"
    /\ mk_chan' = Append(mk_chan, parsed)
    /\ mk_sent' = Append(mk_sent, parsed)
    /\ UNCHANGED <<mk_pc, mk_book, mk_orderbooks, mk_executions>>
    /\ UNCHANGED <<osVars, psVars, obVars, ooVars, botVars, dboVars>>

\* receive_orderbook, one turn of its loop, and the first publish: a message
\* that is no book batch, or a batch without a Snapshot, is dropped; the ops
\* after the first Snapshot of the batch are applied to it, and an error of
\* the writer is returned and unwrapped by the updater
ReceiveOrderbook ==
    /\ mk_pc = "receive_orderbook"
    /\ mk_chan # <<>>
    /\ mk_chan' = Tail(mk_chan)
    /\ LET parsed == Head(mk_chan)
           IsSnapshot(wop) == wop.kind = "Snapshot"
           index == IF parsed.table = "Orderbook"
                    THEN Position(parsed.data, IsSnapshot)
                    ELSE 0
       IN  IF index = 0
           THEN UNCHANGED <<mk_pc, mk_book, mk_orderbooks>>
           ELSE LET result ==
                        ApplyEach(parsed.data[index].arg,
                                  SubSeq(parsed.data, index + 1, Len(parsed.data)))
                IN  IF result.ok
                    THEN /\ mk_pc' = "running"
                         /\ mk_book' = <<result.book>>
                         /\ mk_orderbooks' = Append(mk_orderbooks, result.book)
                    ELSE /\ mk_pc' = "panicked"
                         /\ UNCHANGED <<mk_book, mk_orderbooks>>
    /\ UNCHANGED <<mk_sent, mk_executions>>
    /\ UNCHANGED <<osVars, psVars, obVars, ooVars, botVars, dboVars>>

\* the updater's loop, ParsedMessage::Orderbook(ops): every op is applied and
\* unwrapped, then the book is published
UpdateOrderbook ==
    /\ mk_pc = "running"
    /\ mk_chan # <<>>
    /\ Head(mk_chan).table = "Orderbook"
    /\ mk_chan' = Tail(mk_chan)
    /\ LET result == ApplyEach(mk_book[1], Head(mk_chan).data)
       IN  IF result.ok
           THEN /\ mk_book' = <<result.book>>
                /\ mk_orderbooks' = Append(mk_orderbooks, result.book)
                /\ UNCHANGED mk_pc
           ELSE /\ mk_pc' = "panicked"
                /\ UNCHANGED <<mk_book, mk_orderbooks>>
    /\ UNCHANGED <<mk_sent, mk_executions>>
    /\ UNCHANGED <<osVars, psVars, obVars, ooVars, botVars, dboVars>>

\* the updater's loop, ParsedMessage::Execution(executions): one publish per
\* execution, in order
PublishExecutions ==
    /\ mk_pc = "running"
    /\ mk_chan # <<>>
    /\ Head(mk_chan).table = "Execution"
    /\ mk_chan' = Tail(mk_chan)
    /\ mk_executions' = mk_executions \o Head(mk_chan).data
    /\ UNCHANGED <<mk_pc, mk_book, mk_sent, mk_orderbooks>>
    /\ UNCHANGED <<osVars, psVars, obVars, ooVars, botVars, dboVars>>

NetworkSendAny ==
    \E parsed \in OrderbookMessages \cup ExecutionMessages : NetworkSend(parsed)

NextMarket ==
    \/ NetworkSendAny
    \/ ReceiveOrderbook
    \/ UpdateOrderbook
    \/ PublishExecutions

(***************************************************************************)
(* Bot::run (bot.rs) and Observation::warmup (observation.rs)             *)
(***************************************************************************)
\* bound on the messages published to the bot's four subscriptions
MaxBotMessages == 5

\* config.num_iteration
NumIteration == 2

\* the four subscriptions Bot::run takes before warmup
Topics == {"execution", "orderbook", "inventory", "open_orders"}

\* the three values warmup waits for
Required == {"orderbook", "inventory", "open_orders"}

\* Bot is generic over its Policy: evaluate may return any Vec<Order>
Evaluations ==
    UNION {[1..n -> Orders] : n \in 0..MaxSubmits}

\* warmup's locals: executions = Vec::new(), the three others None
NoObservation ==
    [executions |-> <<>>, orderbook |-> <<>>, inventory |-> <<>>,
     open_orders |-> <<>>, pending_orders |-> <<>>]

\* the select arms: push an execution, or replace one of the three values
Observed(obs, topic, msg) ==
    CASE topic = "execution" ->
            [obs EXCEPT !.executions = Append(@, msg)]
      [] topic = "orderbook" -> [obs EXCEPT !.orderbook = <<msg>>]
      [] topic = "inventory" -> [obs EXCEPT !.inventory = <<msg>>]
      [] topic = "open_orders" -> [obs EXCEPT !.open_orders = <<msg>>]

\* a warmup that leaves as soon as it has a book
WarmedUp_BookOnly(obs) == obs.orderbook # <<>>

\* if orderbook.is_some() && inventory.is_some() && open_orders.is_some()
WarmedUp(obs) ==
    /\ obs.orderbook # <<>>
    /\ obs.inventory # <<>>
    /\ obs.open_orders # <<>>

\* a receive that waits on a disconnected channel instead of failing
RecvFails_Never(topic) == FALSE

\* recv() on a receiver: Err once the channel is empty and disconnected
RecvFails(topic) == bot_chan[topic] = <<>> /\ topic \in bot_closed

\* an arm of select! is ready when its recv would not block
Ready(topic) == bot_chan[topic] # <<>> \/ topic \in bot_closed

\* a loop that evaluates after whatever message it took
Target_Always(topic) == TRUE

\* a loop that never evaluates
Target_Never(topic) == FALSE

\* target = true: only the orderbook arm sets it
Target(topic) == topic = "orderbook"

\* a loop that submits in test mode too
Submits_IgnoresTest(orders, test) == orders # <<>>

\* if !orders.is_empty() && !self.config.test
Submits(orders, test) == orders # <<>> /\ ~test

\* order_service.get_pending_orders() mapped with into_inner
PendingInner == [k \in 1..Len(get_pending_orders) |-> get_pending_orders[k].order]

\* for order in orders { self.order_service.submit(order); }
RECURSIVE SubmitEach(_, _)
SubmitEach(service, orders) ==
    IF orders = <<>> THEN service
    ELSE SubmitEach(
            [nonce |-> NextNonce(service.nonce),
             tasks |-> Append(service.tasks,
                [po |-> PendingOrder(now, service.nonce, Head(orders)),
                 pc |-> "push", found |-> FALSE])],
            Tail(orders))

\* Bot::run has subscribed to the four topics and enters warmup
InitBot(test) ==
    /\ bot_pc = "warmup"
    /\ bot_test = test
    /\ bot_chan = [t \in Topics |-> <<>>]
    /\ bot_closed = {}
    /\ bot_sent = [t \in Topics |-> 0]
    /\ bot_obs = NoObservation
    /\ bot_iter = 0
    /\ bot_log = <<>>

\* a session publishes on a topic: the message lands in the bot's receiver
BotPublish(topic) ==
    /\ topic \notin bot_closed
    /\ bot_sent["execution"] + bot_sent["orderbook"] + bot_sent["inventory"]
         + bot_sent["open_orders"] < MaxBotMessages
    /\ bot_sent' = [bot_sent EXCEPT ![topic] = @ + 1]
    /\ bot_chan' = [bot_chan EXCEPT ![topic] = Append(@, bot_sent[topic] + 1)]
    /\ UNCHANGED <<bot_pc, bot_test, bot_closed, bot_obs, bot_iter, bot_log>>
    /\ UNCHANGED <<osVars, psVars, obVars, ooVars, mkVars, dboVars>>

\* the sending side of a subscription goes away
BotDisconnect(topic) ==
    /\ topic \notin bot_closed
    /\ bot_closed' = bot_closed \cup {topic}
    /\ UNCHANGED <<bot_pc, bot_test, bot_chan, bot_sent, bot_obs, bot_iter,
                   bot_log>>
    /\ UNCHANGED <<osVars, psVars, obVars, ooVars, mkVars, dboVars>>

\* Observation::warmup: one turn of its loop, the select and the check after it
BotWarmup(topic) ==
    /\ bot_pc = "warmup"
    /\ Ready(topic)
    /\ IF RecvFails(topic)
       THEN /\ bot_pc' = "returned_err"
            /\ UNCHANGED <<bot_chan, bot_obs>>
       ELSE /\ bot_chan[topic] # <<>>
            /\ bot_chan' = [bot_chan EXCEPT ![topic] = Tail(@)]
            /\ bot_obs' = Observed(bot_obs, topic, Head(bot_chan[topic]))
            /\ bot_pc' = IF WarmedUp(bot_obs') THEN "running" ELSE "warmup"
    /\ UNCHANGED <<bot_test, bot_closed, bot_sent, bot_iter, bot_log>>
    /\ UNCHANGED <<osVars, psVars, obVars, ooVars, mkVars, dboVars>>

\* Bot::run: one iteration of the for loop, the policy answering with orders
BotIterate(topic, orders) ==
    /\ bot_pc = "running"
    /\ bot_iter < NumIteration
    /\ Ready(topic)
    /\ IF RecvFails(topic)
       THEN /\ orders = <<>>
            /\ bot_pc' = "returned_err"
            /\ bot_log' = Append(bot_log,
                    [topic |-> topic, ok |-> FALSE, evaluated |-> FALSE,
                     observation |-> bot_obs, orders |-> <<>>,
                     submitted |-> <<>>])
            /\ UNCHANGED <<bot_chan, bot_obs, bot_iter, nonce, tasks>>
       ELSE /\ bot_chan[topic] # <<>>
            /\ bot_chan' = [bot_chan EXCEPT ![topic] = Tail(@)]
            /\ bot_iter' = bot_iter + 1
            /\ bot_pc' = "running"
            /\ LET updated == Observed(bot_obs, topic, Head(bot_chan[topic]))
               IN  IF Target(topic)
                   THEN LET observation ==
                                [updated EXCEPT !.pending_orders = PendingInner]
                            submitted ==
                                IF Submits(orders, bot_test) THEN orders
                                ELSE <<>>
                            service ==
                                SubmitEach([nonce |-> nonce, tasks |-> tasks],
                                           submitted)
                        IN  /\ Len(tasks) + Len(submitted) <= MaxSubmits
                            /\ bot_obs' = observation
                            /\ nonce' = service.nonce
                            /\ tasks' = service.tasks
                            /\ bot_log' = Append(bot_log,
                                    [topic |-> topic, ok |-> TRUE,
                                     evaluated |-> TRUE,
                                     observation |-> observation,
                                     orders |-> orders,
                                     submitted |-> submitted])
                   ELSE /\ orders = <<>>
                        /\ bot_obs' = updated
                        /\ bot_log' = Append(bot_log,
                                [topic |-> topic, ok |-> TRUE,
                                 evaluated |-> FALSE,
                                 observation |-> updated,
                                 orders |-> <<>>, submitted |-> <<>>])
                        /\ UNCHANGED <<nonce, tasks>>
    /\ UNCHANGED <<bot_test, bot_closed, bot_sent, pendings, now>>
    /\ UNCHANGED <<psVars, obVars, ooVars, mkVars, dboVars>>

\* Bot::run: the for loop is over, Ok(())
BotReturn ==
    /\ bot_pc = "running"
    /\ bot_iter = NumIteration
    /\ bot_pc' = "returned_ok"
    /\ UNCHANGED <<bot_test, bot_chan, bot_closed, bot_sent, bot_obs,
                   bot_iter, bot_log>>
    /\ UNCHANGED <<osVars, psVars, obVars, ooVars, mkVars, dboVars>>

BotPublishAny == \E topic \in Topics : BotPublish(topic)
BotDisconnectAny == \E topic \in Topics : BotDisconnect(topic)
BotWarmupAny == \E topic \in Topics : BotWarmup(topic)
BotIterateAny ==
    \E topic \in Topics : \E orders \in Evaluations : BotIterate(topic, orders)

(***************************************************************************)
(* The bot on a market session (bot.rs, market.rs, pubsub.rs)              *)
(***************************************************************************)
\* the topics BitMEXMarket serves
MarketTopics == {"orderbook", "execution"}

\* the topics the status session serves
StatusTopics == {"inventory", "open_orders"}

\* what the market session has published on a topic
PublishedOn(topic) ==
    IF topic = "orderbook" THEN mk_orderbooks ELSE mk_executions

\* the owners of the PubSub handles of the market session, each a clone of
\* one Arc: the BitMEXMarket struct the Bot owns, and the updater thread,
\* which drops its clones when it unwinds
PubSubHolders ==
    (IF bot_pc # "dropped" THEN {"market"} ELSE {})
        \cup (IF mk_pc # "panicked" THEN {"updater"} ELSE {})

\* a publish of the market session reaches the bot's receiver: every message
\* the updater published is sent, whatever the status session has sent
SessionDeliver(topic) ==
    /\ topic \in MarketTopics
    /\ topic \notin bot_closed
    /\ bot_sent[topic] < Len(PublishedOn(topic))
    /\ bot_sent' = [bot_sent EXCEPT ![topic] = @ + 1]
    /\ bot_chan' = [bot_chan EXCEPT ![topic] = Append(@, bot_sent[topic] + 1)]
    /\ UNCHANGED <<bot_pc, bot_test, bot_closed, bot_obs, bot_iter, bot_log>>
    /\ UNCHANGED <<osVars, psVars, obVars, ooVars, mkVars, dboVars>>

\* the status session publishes
StatusPublish(topic) ==
    /\ topic \in StatusTopics
    /\ BotPublish(topic)

\* the Senders of a topic are dropped with the subscriber map, when the last
\* handle of the PubSub is gone
SessionDisconnect(topic) ==
    /\ topic \in MarketTopics
    /\ PubSubHolders = {}
    /\ BotDisconnect(topic)

\* the owner of the Bot lets go of it after run has returned
BotDrop ==
    /\ bot_pc \in {"returned_ok", "returned_err"}
    /\ bot_pc' = "dropped"
    /\ UNCHANGED <<bot_test, bot_chan, bot_closed, bot_sent, bot_obs,
                   bot_iter, bot_log>>
    /\ UNCHANGED <<osVars, psVars, obVars, ooVars, mkVars, dboVars>>

\* the feed of the session: book batches of one op, single trades
SessionMessages ==
    {parsed \in OrderbookMessages \cup ExecutionMessages :
        Len(parsed.data) = 1}

SessionFeed == \E parsed \in SessionMessages : NetworkSend(parsed)
SessionDeliverAny == \E topic \in MarketTopics : SessionDeliver(topic)
StatusPublishAny == \E topic \in StatusTopics : StatusPublish(topic)
SessionDisconnectAny == \E topic \in MarketTopics : SessionDisconnect(topic)

\* the loop of a policy that never quotes
BotIterateQuiet == \E topic \in Topics : BotIterate(topic, <<>>)

(***************************************************************************)
(* DepthBasedOffering (strategies/dbo.rs)                                  *)
(***************************************************************************)
\* bound on the offers of one side of the observed book
MaxBookDepth == 2

\* bound on the own open orders of the observation
MaxOwnOrders == 2

\* MarketInfo of the observation, prices counted in ticks
dummy_info ==
    [max_order_size |-> 100, min_order_size |-> 2, lot_size |-> 1,
     max_order_price |-> 9, min_order_price |-> 1, tick_size |-> 1]

\* DepthBasedOffering::new(max_exposure, target_depth)
DepthBasedOffering(max_exposure, target_depth) ==
    [max_exposure |-> max_exposure, target_depth |-> target_depth]

\* the policy instance: max_exposure 2, target_depth 2
Dbo == DepthBasedOffering(2, 2)

\* Observation::new(info, executions, orderbook, inventory, open_orders,
\* pending_orders); inventory is the Amount inventory.position() returns
Observation(info, executions, book, position, own, pending_orders) ==
    [info |-> info, executions |-> executions, orderbook |-> book,
     inventory |-> position, open_orders |-> own,
     pending_orders |-> pending_orders]

\* Order::create(order_type, order_side, price, amount)
OrderCreate(order_type, order_side, price, amount) ==
    [kind |-> "New", order_type |-> order_type, order_side |-> order_side,
     price |-> price, amount |-> amount]

\* OrderState::to_cancel_order().into()
ToCancelOrder(order) == [kind |-> "Cancel", id |-> order.id]

\* OpenOrders::asks() / bids(): the orders of a side, in stored order
OwnOf(own, side) ==
    LET OnSide(order) == order.side = side
    IN  SelectSeq(own.orders, OnSide)

\* the sum RemainingOrders::new collects for one price
RECURSIVE AmountAt(_, _)
AmountAt(orders, price) ==
    IF orders = <<>> THEN 0
    ELSE (IF Head(orders).price = price THEN Head(orders).amount ELSE 0)
            + AmountAt(Tail(orders), price)

\* a walk that knows nothing of the own orders
RemainingOrders_None(own) == [price \in {} |-> 0]

\* RemainingOrders::new: the own amounts per price, all sides together
RemainingOrders(own) ==
    [price \in {own.orders[k].price : k \in 1..Len(own.orders)} |->
        AmountAt(own.orders, price)]

\* an extract that empties the counter whatever the offer's amount
Extract_Drains(amounts, offer) ==
    IF offer.price \in DOMAIN amounts
    THEN [amounts |-> [amounts EXCEPT ![offer.price] = 0],
          extracted |-> IF offer.amount > amounts[offer.price]
                        THEN amounts[offer.price] ELSE offer.amount]
    ELSE [amounts |-> amounts, extracted |-> 0]

\* an extract that never takes from the counter what it attributes
Extract_NeverDecrements(amounts, offer) ==
    IF offer.price \in DOMAIN amounts
    THEN IF offer.amount > amounts[offer.price]
         THEN [amounts |-> [amounts EXCEPT ![offer.price] = 0],
               extracted |-> amounts[offer.price]]
         ELSE [amounts |-> amounts, extracted |-> offer.amount]
    ELSE [amounts |-> amounts, extracted |-> 0]

\* RemainingOrders::extract: the counters after it and the amount it returns
Extract(amounts, offer) ==
    IF offer.price \in DOMAIN amounts
    THEN IF offer.amount > amounts[offer.price]
         THEN [amounts |-> [amounts EXCEPT ![offer.price] = 0],
               extracted |-> amounts[offer.price]]
         ELSE [amounts |-> [amounts EXCEPT ![offer.price] = @ - offer.amount],
               extracted |-> offer.amount]
    ELSE [amounts |-> amounts, extracted |-> 0]

\* the for loop of find_price_at_depth from an offer on
RECURSIVE WalkBook(_, _, _, _)
WalkBook(book, depth, remaining, sum) ==
    IF book = <<>> THEN <<>>
    ELSE LET offer == Head(book)
             extract == Extract(remaining, offer)
             amount == offer.amount - extract.extracted
         IN  IF sum + amount >= depth THEN <<offer.price>>
             ELSE WalkBook(Tail(book), depth, extract.amounts, sum + amount)

\* the counter of a price: None while the map has no entry for it
CounterAt(amounts, price) ==
    IF price \in DOMAIN amounts THEN <<amounts[price]>> ELSE <<>>

\* the turns of the for loop of find_price_at_depth, one record per offer
\* consumed: the offer's counter before and after extract and the amount
\* added to sum
RECURSIVE WalkSteps(_, _, _, _)
WalkSteps(book, depth, remaining, sum) ==
    IF book = <<>> THEN <<>>
    ELSE LET offer == Head(book)
             extract == Extract(remaining, offer)
             amount == offer.amount - extract.extracted
             step == [offer |-> offer,
                      before |-> CounterAt(remaining, offer.price),
                      after |-> CounterAt(extract.amounts, offer.price),
                      counted |-> amount]
         IN  IF sum + amount >= depth THEN <<step>>
             ELSE <<step>> \o
                  WalkSteps(Tail(book), depth, extract.amounts, sum + amount)

\* find_price_at_depth: Some(price) is <<price>>, None is <<>>
find_price_at_depth(book, depth, own) ==
    WalkBook(book, depth, RemainingOrders(own), 0)

\* a guard that never sees the submissions in flight
InFlight_Never(observation) == FALSE

\* !observation.pending_orders().is_empty()
InFlight(observation) == observation.pending_orders # <<>>

\* a reconciliation that keeps whatever sits at the target price
Keeps_PriceOnly(order, price, remaining) == order.price = price

\* a reconciliation that keeps every own order
Keeps_Everything(order, price, remaining) == TRUE

\* order.price() == new_price && order.amount() <= remaining
Keeps(order, price, remaining) ==
    order.price = price /\ order.amount <= remaining

\* a policy that asks for no minimum size
Places_NoMinimum(remaining, info) == remaining >= 0

\* a policy that places whatever is left
Places_AnyRest(remaining, info) == remaining > 0

\* remaining >= info.min_order_size()
Places(remaining, info) == remaining >= info.min_order_size

\* a vector that grows at its front
Push_Front(orders, order) == <<order>> \o orders

\* orders.push(order)
Push(orders, order) == Append(orders, order)

\* the for loop over the own orders of a side: the orders vector and the
\* remaining size after it
RECURSIVE Reconcile(_, _, _, _)
Reconcile(own, price, remaining, orders) ==
    IF own = <<>> THEN [remaining |-> remaining, orders |-> orders]
    ELSE IF Keeps(Head(own), price, remaining)
         THEN Reconcile(Tail(own), price, remaining - Head(own).amount, orders)
         ELSE Reconcile(Tail(own), price, remaining,
                        Push(orders, ToCancelOrder(Head(own))))

\* a side of evaluate: the reconciliation, then the new order if there is
\* room for one
Quote(side, own, price, size, info, orders) ==
    LET reconciled == Reconcile(OwnOf(own, side), price, size, orders)
    IN  IF Places(reconciled.remaining, info)
        THEN Push(reconciled.orders,
                  OrderCreate("Limit", side, price, reconciled.remaining))
        ELSE reconciled.orders

\* new_ask_price: the price at depth less a tick, or max_order_price
NewAskPrice(policy, observation) ==
    LET found == find_price_at_depth(observation.orderbook.asks,
                    policy.target_depth, observation.open_orders)
    IN  IF found # <<>> THEN found[1] - observation.info.tick_size
        ELSE observation.info.max_order_price

\* new_bid_price: the price at depth plus a tick, or min_order_price
NewBidPrice(policy, observation) ==
    LET found == find_price_at_depth(observation.orderbook.bids,
                    policy.target_depth, observation.open_orders)
    IN  IF found # <<>> THEN found[1] + observation.info.tick_size
        ELSE observation.info.min_order_price

\* DepthBasedOffering::evaluate
Evaluate(policy, observation) ==
    IF InFlight(observation) THEN <<>>
    ELSE LET info == observation.info
             position == observation.inventory
             new_ask_size == policy.max_exposure + position
             new_bid_size == policy.max_exposure - position
             asks == Quote("Ask", observation.open_orders,
                           NewAskPrice(policy, observation), new_ask_size,
                           info, <<>>)
         IN  Quote("Bid", observation.open_orders,
                   NewBidPrice(policy, observation), new_bid_size, info, asks)

\* the values the observations are drawn from
AskPrices == {5, 6}
BidPrices == {2, 3}
OwnPrices == {3, 5}
Positions == {-3, -2, 0, 2, 3}

\* the sides a book can have: up to MaxBookDepth offers, best price first
BookSides(prices, ascending) ==
    {side \in UNION {{[k \in 1..n |-> Offer(k, f[k][1], f[k][2])] :
                        f \in [1..n -> prices \X Amounts]} :
                     n \in 0..MaxBookDepth} :
        \A k \in 1..Len(side) - 1 :
            IF ascending THEN side[k].price <= side[k + 1].price
            ELSE side[k].price >= side[k + 1].price}

\* the own orders an observation can hold: ids distinct, any side
OwnOrders ==
    UNION {{[k \in 1..n |-> OrderState(k, f[k][1], f[k][2], f[k][3])] :
                f \in [1..n -> Sides \X OwnPrices \X Amounts]} :
           n \in 0..MaxOwnOrders}

\* an observation of an empty market
IdleObservation ==
    Observation(dummy_info, <<>>, Orderbook(0, <<>>, <<>>), 0,
                OpenOrders(0, <<>>), <<>>)

\* the policy has been handed an observation and has not answered yet
InitDbo(observation) ==
    /\ dbo_obs = observation
    /\ dbo_out = <<>>

\* policy.evaluate(&observation) returns
DboEvaluate ==
    /\ dbo_out = <<>>
    /\ dbo_out' = <<Evaluate(Dbo, dbo_obs)>>
    /\ UNCHANGED dbo_obs
    /\ UNCHANGED <<osVars, psVars, obVars, ooVars, mkVars, botVars>>

NextDbo == DboEvaluate

Init ==
    /\ InitOS /\ InitPS /\ InitOB /\ InitOO /\ InitMK
    /\ InitBot(FALSE)
    /\ InitDbo(IdleObservation)

InitBotRun ==
    /\ InitOS /\ InitPS /\ InitOB /\ InitOO /\ InitMK
    /\ \E test \in BOOLEAN : InitBot(test)
    /\ InitDbo(IdleObservation)

SubmitAny == \E order \in Orders : Submit(order)
TaskPushAny == \E i \in 1..MaxSubmits + 1 : TaskPush(i)
BrokerReplyAny == \E i \in 1..MaxSubmits + 1 : BrokerReply(i)
TaskRemoveAny == \E i \in 1..MaxSubmits + 1 : TaskRemove(i)

NextOrderService ==
    \/ SubmitAny
    \/ TaskPushAny
    \/ BrokerReplyAny
    \/ TaskRemoveAny
    \/ GcTick
    \/ AdvanceTime

SpecOrderService == Init /\ [][NextOrderService]_vars

SpecPubSub == Init /\ [][NextPubSub]_vars

SpecOrderbook == Init /\ [][NextOrderbook]_vars

SpecOpenOrders == Init /\ [][NextOpenOrders]_vars

SpecWriters == Init /\ [][NextWriters]_vars

SpecMarket == Init /\ [][NextMarket]_vars

NextBot ==
    \/ BotPublishAny
    \/ BotDisconnectAny
    \/ BotWarmupAny
    \/ BotIterateAny
    \/ BotReturn
    \/ TaskPushAny
    \/ BrokerReplyAny
    \/ TaskRemoveAny

SpecBot == InitBotRun /\ [][NextBot]_vars

NextBotSession ==
    \/ SessionFeed
    \/ ReceiveOrderbook
    \/ UpdateOrderbook
    \/ PublishExecutions
    \/ SessionDeliverAny
    \/ StatusPublishAny
    \/ BotWarmupAny
    \/ BotIterateQuiet
    \/ BotReturn
    \/ BotDrop
    \/ SessionDisconnectAny

SpecBotSession == Init /\ [][NextBotSession]_vars

\* the threads and the select keep running: the updater takes what is in its
\* channel, a publish reaches the receiver, a ready arm is taken
SpecBotSessionFair ==
    /\ Init
    /\ [][NextBotSession]_vars
    /\ WF_vars(ReceiveOrderbook)
    /\ WF_vars(UpdateOrderbook)
    /\ WF_vars(PublishExecutions)
    /\ WF_vars(SessionDeliverAny)
    /\ WF_vars(BotWarmupAny)
    /\ WF_vars(BotIterateQuiet)
    /\ WF_vars(BotReturn)

InitDboRun ==
    /\ InitOS /\ InitPS /\ InitOB /\ InitOO /\ InitMK
    /\ InitBot(FALSE)
    /\ \E asks \in BookSides(AskPrices, TRUE) :
       \E bids \in BookSides(BidPrices, FALSE) :
       \E position \in Positions :
       \E own \in OwnOrders :
       \E pending_orders \in {<<>>, <<"New">>} :
            InitDbo(Observation(dummy_info, <<>>, Orderbook(0, asks, bids),
                                position, OpenOrders(0, own), pending_orders))

SpecDbo == InitDboRun /\ [][NextDbo]_vars

\* select! takes one of the ready arms at random: a ready arm is not passed
\* over forever.
SpecBotFair ==
    /\ InitBotRun
    /\ [][NextBot]_vars
    /\ \A topic \in Topics : WF_vars(BotWarmup(topic))

\* run is not suspended for ever between the last iteration and its return
SpecBotLoopFair ==
    /\ InitBotRun
    /\ [][NextBot]_vars
    /\ WF_vars(BotReturn)

\* The gc task is a timer that keeps ticking and the clock keeps advancing.
SpecOrderServiceFair ==
    /\ Init
    /\ [][NextOrderService]_vars
    /\ WF_vars(GcTick)
    /\ WF_vars(AdvanceTime)

(***************************************************************************)
(* Order service: claims                                                   *)
(***************************************************************************)

\* the ids carried by a pending list
PendingIds(s) == {s[k].id : k \in 1..Len(s)}

\* the positions of a pending list holding the given PendingOrder
EntriesOf(s, po) == {k \in 1..Len(s) : s[k].id = po.id /\ s[k].order = po.order}

\* the broker reply for task i has not landed and its entry cannot have expired
AwaitingReply(i) ==
    /\ tasks[i].pc \in {"push", "send"}
    /\ tasks[i].po.timestamp + EXPIRES_MS > now

\* C1: once submit(o) has returned, get_pending_orders() holds exactly one
\* entry with the id assigned to o and the order o, for as long as the broker
\* reply has not landed and the entry has not expired.
C1_VisibleOnceSubmitReturns ==
    \A i \in 1..Len(tasks) :
        AwaitingReply(i) =>
            Cardinality(EntriesOf(get_pending_orders, tasks[i].po)) = 1

\* C2: every PendingOrder that is in the pending list is eventually out of
\* it (removed by the reply or, failing that, by the gc pass after expiry).
C2_EveryPendingEventuallyRemoved ==
    \A id \in 0..MaxSubmits :
        (id \in PendingIds(pendings)) ~> (id \notin PendingIds(pendings))

\* C2 witness: the broker never replied and the gc pass removed the entry.
C2_Witness ==
    \E i \in 1..Len(tasks) :
        /\ tasks[i].pc = "send"
        /\ tasks[i].po.id \notin PendingIds(pendings)

\* C3: a PendingId is in the list at most once; an id that was pushed and is
\* gone never comes back; the removal by id of a task changes the presence of
\* no other task's entry, and changes nothing at all when its own entry has
\* already expired; a gc pass drops expired entries only.
C3_AtMostOnceAndIdempotent ==
    [][ /\ \A j, k \in 1..Len(pendings') :
              j # k => pendings'[j].id # pendings'[k].id
        /\ \A i \in 1..Len(tasks) :
              (tasks[i].pc # "push" /\ tasks[i].po.id \notin PendingIds(pendings))
                  => tasks[i].po.id \notin PendingIds(pendings')
        /\ \A i \in 1..Len(tasks) :
              (tasks[i].pc = "remove" /\ tasks'[i].pc = "done") =>
                  /\ tasks[i].po.id \notin PendingIds(pendings')
                  /\ \A j \in 1..Len(tasks) :
                        j # i => Cardinality(EntriesOf(pendings', tasks[j].po))
                                   = Cardinality(EntriesOf(pendings, tasks[j].po))
                  /\ tasks[i].po.id \notin PendingIds(pendings)
                        => pendings' = pendings
        /\ (tasks' = tasks /\ now' = now) =>
              \A k \in 1..Len(pendings) :
                  pendings[k].timestamp + EXPIRES_MS > now
                      => Cardinality(EntriesOf(pendings', pendings[k])) = 1
      ]_vars

\* C3 witness: a reply landed after its entry had expired (the removal found
\* nothing) while another entry was in the list.
C3_Witness ==
    \E i \in 1..Len(tasks) :
        /\ tasks[i].pc = "done"
        /\ ~tasks[i].found
        /\ pendings # <<>>

\* C4: the ids assigned by successive submit calls are strictly increasing.
C4_PendingIdsStrictlyIncreasing ==
    \A i, j \in 1..Len(tasks) :
        i < j => tasks[i].po.id < tasks[j].po.id

\* C4 witness: two submits have returned.
C4_Witness == Len(tasks) >= 2

(***************************************************************************)
(* Pub/sub bus: claims                                                     *)
(***************************************************************************)

\* the subscription id has been handed out by subscribe
Allocated(id) == id < ps_nonce

\* the publish numbers from + 1, ..., from + n
Range(from, n) == [k \in 1..n |-> from + k]

\* the messages published under the given publish numbers
MsgsAt(idx) == [k \in 1..Len(idx) |-> published[idx[k]]]

\* the sequence of messages a subscription has received (was sent) so far
Received(id) == MsgsAt(delivered[id])

\* sequence p is a prefix of sequence s
IsPrefix(p, s) == Len(p) <= Len(s) /\ p = SubSeq(s, 1, Len(p))

\* unsubscribe has been called for the subscription
Unsubscribed(id) == unsub_at[id] # <<>>

\* C5: the sequence each subscriber receives is a prefix of the K published
\* messages, in publish order.
C5_ReceivedIsPrefixOfAllPublished ==
    \A id \in SubIds :
        Allocated(id) => IsPrefix(Received(id), published)

\* C5 (amended): the sequence each subscriber receives is a prefix of the
\* messages published since it subscribed, in publish order (of all K
\* messages for a subscriber registered before the first publish), and what
\* its consumer has taken is a prefix of that.
C5_ReceivedIsPrefixSinceSubscribe ==
    \A id \in SubIds :
        Allocated(id) =>
            /\ delivered[id] = Range(sub_at[id], Len(delivered[id]))
            /\ IsPrefix(Received(id),
                        SubSeq(published, sub_at[id] + 1, Len(published)))
            /\ sub_at[id] = 0 => IsPrefix(Received(id), published)
            /\ IsPrefix(consumed[id], Received(id))

\* C5 witness: a subscriber that registered after a publish has received a
\* later message.
C5_Witness ==
    \E id \in SubIds :
        Allocated(id) /\ sub_at[id] > 0 /\ delivered[id] # <<>>

\* C6: a subscriber unsubscribed before the i-th publish has neither message
\* i nor a later one placed in its queue.
C6_NothingEnqueuedAfterUnsubscribe ==
    \A id \in SubIds :
        Unsubscribed(id) =>
            /\ \A k \in 1..Len(delivered[id]) :
                  delivered[id][k] <= unsub_at[id][1].at
            /\ \A k \in 1..Len(queue[id]) :
                  queue[id][k] <= unsub_at[id][1].at

\* C6 witness: a message was published after a live subscription was
\* unsubscribed.
C6_Witness ==
    \E id \in SubIds :
        /\ Unsubscribed(id) /\ alive[id]
        /\ unsub_at[id][1].by = "unsubscribe"
        /\ Len(published) > unsub_at[id][1].at

\* C7: once unsubscribe(id) has been called the subscription reports
\* disconnected and recv, iter and try_iter return Disconnected; a
\* subscription nobody unsubscribed stays connected and has received every
\* message published since it subscribed, in order.
C7_UnsubscribeDisconnectsOnlyThatOne ==
    \A id \in SubIds :
        Allocated(id) =>
            IF Unsubscribed(id)
            THEN /\ exit[id]
                 /\ RecvResult(id) = "Disconnected"
                 /\ IterResult(id) = "Disconnected"
            ELSE alive[id] =>
                 /\ ~exit[id]
                 /\ id \in subscribers
                 /\ IterResult(id) = "Ok"
                 /\ delivered[id] =
                       Range(sub_at[id], Len(published) - sub_at[id])

\* C7 witness: one subscription was unsubscribed between two publishes and
\* the other one, still connected, has the message before and the one after.
C7_Witness ==
    \E id, other \in SubIds :
        /\ id # other
        /\ Unsubscribed(id) /\ alive[id]
        /\ unsub_at[id][1].by = "unsubscribe"
        /\ Allocated(other) /\ ~Unsubscribed(other) /\ alive[other]
        /\ sub_at[other] < unsub_at[id][1].at
        /\ unsub_at[id][1].at < Len(published)

C9_PublishCollectsDroppedReceivers ==
    [][ Len(published') = Len(published) + 1 =>
          \A id \in subscribers :
              IF alive[id]
              THEN /\ id \in subscribers'
                   /\ queue'[id] =
                         Append(queue[id], published'[Len(published')])
              ELSE /\ id \notin subscribers'
                   /\ queue'[id] = queue[id]
      ]_vars

\* C9 witness: a publish removed a subscription whose receiver was dropped
\* and another subscription received that message.
C9_Witness ==
    \E id, other \in SubIds :
        /\ id # other
        /\ Unsubscribed(id)
        /\ unsub_at[id][1].by = "publish"
        /\ id \notin subscribers
        /\ \E k \in 1..Len(delivered[other]) :
              delivered[other][k] = unsub_at[id][1].at

(***************************************************************************)
(* Order-book writer: claims                                               *)
(***************************************************************************)

\* the prices of a side are strictly increasing (dir = 1) or strictly
\* decreasing (dir = -1) along the sequence
StrictlyOrdered(offers, dir) ==
    \A i, j \in 1..Len(offers) :
        i < j => dir * offers[i].price < dir * offers[j].price

\* the prices of a side never decrease (dir = 1) or never increase (dir = -1)
\* along the sequence
Ordered(offers, dir) ==
    \A i, j \in 1..Len(offers) :
        i < j => dir * offers[i].price <= dir * offers[j].price

\* C10: after any sequence of writer ops the asks are strictly
\* price-ascending and the bids strictly price-descending.
C10_SidesStrictlySorted ==
    /\ StrictlyOrdered(orderbook.asks, 1)
    /\ StrictlyOrdered(orderbook.bids, 0 - 1)

\* C10 (amended): after any sequence of writer ops (snapshots being
\* price-sorted books) the asks are price-ascending and the bids
\* price-descending, offers of equal price being allowed next to each other.
C10_SidesSorted ==
    /\ Ordered(orderbook.asks, 1)
    /\ Ordered(orderbook.bids, 0 - 1)

\* C10 witness: a side holds two offers of one price next to an offer of
\* another price.
C10_Witness ==
    \/ /\ Len(orderbook.asks) = 3
       /\ orderbook.asks[1].price = orderbook.asks[2].price
       /\ orderbook.asks[2].price < orderbook.asks[3].price
    \/ /\ Len(orderbook.bids) = 3
       /\ orderbook.bids[1].price = orderbook.bids[2].price
       /\ orderbook.bids[2].price > orderbook.bids[3].price

\* an offer of the given id is on the given side of the book
OfferPresent(bk, side, id) ==
    \E k \in 1..Len(SideOf(bk, side)) : SideOf(bk, side)[k].id = id

\* an order of the given id is in the container
Present(oo, id) == \E k \in 1..Len(oo.orders) : oo.orders[k].id = id

\* C14: an order-book Update or Delete whose OfferId is absent from the given
\* side fails with OfferNotFound, and an open-orders Update, Delete or
\* Execution whose OrderId is absent fails with OrderNotFound; the book or the
\* container, timestamp included, is left exactly as it was.
C14_AbsentIdFailsAndChangesNothing ==
    /\ \A op \in UpdateOps :
          ~OfferPresent(orderbook, op.side, op.id) =>
              /\ Returned(ApplyUpdate(orderbook, op)) = "OfferNotFound"
              /\ ApplyUpdate(orderbook, op).book = orderbook
    /\ \A op \in DeleteOps :
          ~OfferPresent(orderbook, op.side, op.id) =>
              /\ Returned(ApplyDelete(orderbook, op)) = "OfferNotFound"
              /\ ApplyDelete(orderbook, op).book = orderbook
    /\ \A op \in OpenOrdersUpdateOps :
          ~Present(open_orders, op.id) =>
              /\ Returned(OpenOrdersApplyUpdate(open_orders, op)) = "OrderNotFound"
              /\ OpenOrdersApplyUpdate(open_orders, op).state = open_orders
    /\ \A op \in OpenOrdersDeleteOps :
          ~Present(open_orders, op.id) =>
              /\ Returned(OpenOrdersApplyDelete(open_orders, op)) = "OrderNotFound"
              /\ OpenOrdersApplyDelete(open_orders, op).state = open_orders
    /\ \A op \in OpenOrdersExecutionOps :
          ~Present(open_orders, op.id) =>
              /\ Returned(OpenOrdersApplyExecution(open_orders, op)) = "OrderNotFound"
              /\ OpenOrdersApplyExecution(open_orders, op).state = open_orders

\* an open-orders Execution has just failed for an id the container does not
\* hold, the container holding the other order, and the asks hold x and not y
C14_Witness ==
    /\ oo_result = [op |-> "Execution", returned |-> "OrderNotFound"]
    /\ Len(open_orders.orders) = 1
    /\ open_orders.timestamp > 0
    /\ OfferPresent(orderbook, "Ask", "x")
    /\ ~OfferPresent(orderbook, "Ask", "y")

\* the ids of a side's offers, in book order
OfferIdsOf(offers) == [k \in 1..Len(offers) |-> offers[k].id]

\* no value occurs twice in the sequence
Distinct(seq) ==
    \A i, j \in 1..Len(seq) : i # j => seq[i] # seq[j]

\* C11: after any sequence of writer ops the OfferIds are unique within each
\* side of the book; a Create whose OfferId already exists on that side does
\* not leave two offers with the same id.
C11_OfferIdsUniquePerSide ==
    /\ Distinct(OfferIdsOf(orderbook.asks))
    /\ Distinct(OfferIdsOf(orderbook.bids))

\* C12: the book's timestamp is the timestamp of the last op that was applied
\* successfully (for a Snapshot the snapshot's own timestamp); a failed op
\* does not count.
C12_TimestampIsLastAppliedOps ==
    last_applied # <<>> => orderbook.timestamp = last_applied[1]

\* a successful write with the lower of the two timestamps on a book that
\* still holds an offer
C12_Witness ==
    /\ last_applied = <<1>>
    /\ Len(orderbook.asks) + Len(orderbook.bids) > 0

\* C13: no successful write leaves the book's timestamp lower than it was
\* before the write.
C13_TimestampNeverDecreases ==
    [][orderbook'.timestamp >= orderbook.timestamp]_vars

(***************************************************************************)
(* Open-orders writer: properties.                                         *)
(***************************************************************************)

\* the orders of the container that do not have the given id, in order
Without(oo, id) ==
    LET Other(o) == o.id # id
    IN  SelectSeq(oo.orders, Other)

\* the first order of the given id
OrderOf(oo, id) ==
    oo.orders[CHOOSE k \in 1..Len(oo.orders) :
                 /\ oo.orders[k].id = id
                 /\ \A j \in 1..(k - 1) : oo.orders[j].id # id]

\* C15: an open-orders Create with an OrderId already present fails with
\* AlreadyExists and leaves orders and timestamp unchanged; with a new OrderId
\* it appends the order after all existing orders and sets the timestamp to
\* the op's timestamp.
C15_CreateAppendsOrRejects ==
    [][\A op \in {o \in OpenOrdersCreateOps : oo_result'.op = "Create"} :
          OpenOrdersWriteCreate(op) =>
              IF Present(open_orders, op.order.id)
              THEN /\ oo_result'.returned = "AlreadyExists"
                   /\ open_orders' = open_orders
              ELSE /\ oo_result'.returned = "Ok"
                   /\ open_orders'.orders = open_orders.orders \o <<op.order>>
                   /\ open_orders'.timestamp = op.timestamp]_vars

\* a Create was rejected on a container that an earlier Create had appended
\* a second order to
C15_Witness ==
    /\ oo_result = [op |-> "Create", returned |-> "AlreadyExists"]
    /\ Len(open_orders.orders) = 2

\* C16: Execution(id, filled) on a present order reduces its remaining amount
\* by exactly filled and removes the order if and only if the remaining amount
\* reaches zero; when filled > remaining it returns InsufficientAmount and
\* changes neither orders nor timestamp.
C16_ExecutionReducesOrRejects ==
    [][\A op \in {o \in OpenOrdersExecutionOps : oo_result'.op = "Execution"} :
          (OpenOrdersWriteExecution(op) /\ Present(open_orders, op.id)) =>
              LET remaining == OrderOf(open_orders, op.id).amount
              IN  IF op.amount > remaining
                  THEN /\ oo_result'.returned = "InsufficientAmount"
                       /\ open_orders' = open_orders
                  ELSE /\ oo_result'.returned = "Ok"
                       /\ Present(open_orders', op.id) <=> remaining # op.amount
                       /\ Present(open_orders', op.id) =>
                              /\ Len(open_orders'.orders) = Len(open_orders.orders)
                              /\ OrderOf(open_orders', op.id) =
                                     [OrderOf(open_orders, op.id)
                                         EXCEPT !.amount = remaining - op.amount]
                       /\ Without(open_orders', op.id) =
                              Without(open_orders, op.id)]_vars

\* an Execution was rejected for an order that has one unit left
C16_Witness ==
    /\ oo_result = [op |-> "Execution", returned |-> "InsufficientAmount"]
    /\ \E k \in 1..Len(open_orders.orders) : open_orders.orders[k].amount = 1

\* C17: a Create of an OrderId that is not in the container, followed by the
\* Delete of the same id, yields the orders the container had before the
\* Create, in the same order; only the timestamp may differ.
C17_CreateThenDeleteRestores ==
    (oo_trail # <<>> /\ oo_trail[1].deleted) =>
        open_orders.orders = oo_trail[1].before

\* the Create and the Delete were applied to a container that held an order
C17_Witness ==
    /\ oo_trail # <<>>
    /\ oo_trail[1].deleted
    /\ oo_trail[1].before # <<>>
    /\ oo_result = [op |-> "Delete", returned |-> "Ok"]

(***************************************************************************)
(* Market session: properties.                                             *)
(***************************************************************************)

\* the messages the updater thread has taken from the channel, in order
Taken == SubSeq(mk_sent, 1, Len(mk_sent) - Len(mk_chan))

\* a batch of book ops holds a Snapshot
HasSnapshot(parsed) ==
    /\ parsed.table = "Orderbook"
    /\ \E k \in 1..Len(parsed.data) : parsed.data[k].kind = "Snapshot"

\* the book after the ops were applied in order, an op the writer rejects
\* being dropped
RECURSIVE ApplyDropping(_, _)
ApplyDropping(bk, ops) ==
    IF ops = <<>> THEN bk
    ELSE ApplyDropping(Apply(bk, Head(ops)).book, Tail(ops))

\* the initial book a batch with a Snapshot stands for: the first Snapshot
\* with the ops that follow it in the batch
InitialBook(parsed) ==
    LET index == CHOOSE k \in 1..Len(parsed.data) :
                    /\ parsed.data[k].kind = "Snapshot"
                    /\ \A j \in 1..(k - 1) : parsed.data[j].kind # "Snapshot"
    IN  ApplyDropping(parsed.data[index].arg,
                      SubSeq(parsed.data, index + 1, Len(parsed.data)))

\* the books a session has to publish for the messages: none up to the first
\* batch with a Snapshot, the initial book for that batch, and one book for
\* every later batch
RECURSIVE BooksFor(_)
BooksFor(msgs) ==
    IF msgs = <<>> THEN <<>>
    ELSE LET parsed == msgs[Len(msgs)]
             earlier == BooksFor(SubSeq(msgs, 1, Len(msgs) - 1))
         IN  IF parsed.table # "Orderbook" THEN earlier
             ELSE IF earlier = <<>>
             THEN IF HasSnapshot(parsed) THEN <<InitialBook(parsed)>> ELSE <<>>
             ELSE Append(earlier,
                         ApplyDropping(earlier[Len(earlier)], parsed.data))

\* C18: a writer error while the session applies an op does not kill the
\* session: the updater thread lives on, drops the op, applies the rest and
\* keeps publishing.
C18_WriterErrorDoesNotKillSession == mk_pc # "panicked"

\* C19: no order book is published before a Snapshot op was received; the
\* first published book is that snapshot with the ops that follow it in the
\* same batch applied in order, and from then on every book batch taken from
\* the channel results in exactly one publish of the book after the ops of
\* the batch.
C19_OnePublishPerBatchAfterSnapshot == mk_orderbooks = BooksFor(Taken)

\* C20: every trade event the network task has sent and the updater has
\* taken is published on the execution topic exactly once, in the order of
\* receipt.
C20_EveryTradePublishedOnceInOrder == mk_executions = TradesOf(Taken)

(***************************************************************************)
(* Claims about the bot                                                    *)
(***************************************************************************)
\* the messages of a topic the bot has taken from its receiver
TakenFrom(topic) == bot_sent[topic] - Len(bot_chan[topic])

\* C21: warmup returns an observation only after at least one Orderbook, one
\* Inventory and one OpenOrders message were received, in any interleaving,
\* the executions received meanwhile being accumulated; the policy is never
\* evaluated on an observation that lacks one of the three.
C21_WarmupIsABarrier ==
    /\ bot_pc \in {"running", "returned_ok"} =>
        /\ \A topic \in Required : TakenFrom(topic) >= 1
        /\ bot_obs.orderbook # <<>>
        /\ bot_obs.inventory # <<>>
        /\ bot_obs.open_orders # <<>>
    /\ bot_obs.executions = [k \in 1..TakenFrom("execution") |-> k]
    /\ \A k \in 1..Len(bot_log) :
        bot_log[k].evaluated =>
            /\ bot_log[k].observation.orderbook # <<>>
            /\ bot_log[k].observation.inventory # <<>>
            /\ bot_log[k].observation.open_orders # <<>>

C21_Witness ==
    \E k \in 1..Len(bot_log) :
        /\ bot_log[k].evaluated
        /\ bot_log[k].observation.executions # <<>>
        /\ bot_log[k].observation.inventory = <<1>>

\* a required topic closed before its first value arrived
Starved(topic) ==
    /\ topic \in bot_closed
    /\ bot_chan[topic] = <<>>
    /\ TakenFrom(topic) = 0

\* C22: a receive error on any of the four channels is fatal. During warmup,
\* if a required topic closes before its first value arrives, warmup returns
\* an error and no evaluation or submission ever happens; in the loop the
\* failing receive ends run with the error, nothing being processed by that
\* step or after it.
C22_ReceiveErrorIsFatal ==
    /\ [](\A topic \in Required :
            Starved(topic) =>
                /\ bot_pc \in {"warmup", "returned_err"}
                /\ bot_log = <<>>
                /\ tasks = <<>>
                /\ pendings = <<>>)
    /\ \A topic \in Required :
            Starved(topic) ~> (bot_pc = "returned_err")
    /\ [](\A k \in 1..Len(bot_log) :
            ~bot_log[k].ok =>
                /\ k = Len(bot_log)
                /\ bot_pc = "returned_err"
                /\ ~bot_log[k].evaluated
                /\ bot_log[k].submitted = <<>>)
    /\ [][bot_pc # "returned_err" /\ bot_pc' = "returned_err" =>
            /\ \E topic \in Topics :
                    topic \in bot_closed /\ bot_chan[topic] = <<>>
            /\ UNCHANGED <<bot_obs, bot_iter, bot_chan, osVars>>]_vars
    /\ [][bot_pc = "returned_err" =>
            /\ UNCHANGED <<bot_pc, bot_obs, bot_iter, bot_log, nonce>>
            /\ Len(tasks') = Len(tasks)
            /\ \A topic \in Topics : TakenFrom(topic)' = TakenFrom(topic)]_vars

C22_Witness ==
    /\ bot_pc = "returned_err"
    /\ bot_log = <<>>
    /\ \E topic \in Required : Starved(topic)
    /\ \E topic \in Topics : bot_chan[topic] # <<>>

\* the field of the observation a topic's message goes to
FieldOf(topic) ==
    IF topic = "execution" THEN "executions" ELSE topic

\* the fields of an Observation
ObservationFields ==
    {"executions", "orderbook", "inventory", "open_orders", "pending_orders"}

\* C23: in the loop the policy is evaluated in an iteration if and only if
\* the message received in it is an orderbook update; an execution, inventory
\* or open-orders message only updates its own field of the observation and
\* triggers no evaluation and no submission.
C23_EvaluatesIffOrderbookUpdate ==
    /\ [](\A k \in 1..Len(bot_log) :
            bot_log[k].ok =>
                /\ bot_log[k].evaluated <=> bot_log[k].topic = "orderbook"
                /\ bot_log[k].topic # "orderbook" =>
                        bot_log[k].submitted = <<>>)
    /\ [][Len(bot_log') = Len(bot_log) + 1 =>
            LET last == bot_log'[Len(bot_log')]
            IN  last.ok /\ last.topic # "orderbook" =>
                    /\ UNCHANGED <<osVars>>
                    /\ \A f \in ObservationFields \ {FieldOf(last.topic)} :
                            bot_obs'[f] = bot_obs[f]
                    /\ bot_obs'[FieldOf(last.topic)] # bot_obs[FieldOf(last.topic)]
       ]_vars

C23_Witness ==
    /\ Len(bot_log) = 2
    /\ bot_log[1].topic \in {"execution", "inventory", "open_orders"}
    /\ bot_log[1].ok
    /\ bot_log[2].topic = "orderbook"
    /\ bot_log[2].evaluated
    /\ bot_log[2].submitted # <<>>

\* the orders of every evaluation so far, one after the other
RECURSIVE Returned_Orders(_)
Returned_Orders(log) ==
    IF log = <<>> THEN <<>>
    ELSE Returned_Orders(SubSeq(log, 1, Len(log) - 1)) \o log[Len(log)].orders

\* C24: with test mode on no order is ever submitted to the order service
\* (no task is spawned, the pending list stays empty, the broker is never
\* called) while the policy is still evaluated on every orderbook update;
\* with test mode off every order of a non-empty result is submitted, in the
\* order the policy returned them.
C24_TestModeSubmitsNothing ==
    /\ \A k \in 1..Len(bot_log) :
            bot_log[k].ok /\ bot_log[k].topic = "orderbook" =>
                bot_log[k].evaluated
    /\ bot_test =>
            /\ tasks = <<>>
            /\ pendings = <<>>
            /\ nonce = 0
    /\ ~bot_test =>
            /\ [k \in 1..Len(tasks) |-> tasks[k].po.order]
                    = Returned_Orders(bot_log)
            /\ [k \in 1..Len(tasks) |-> tasks[k].po.id]
                    = [k \in 1..Len(tasks) |-> k - 1]

C24_Witness ==
    /\ bot_test
    /\ \E k \in 1..Len(bot_log) :
            bot_log[k].evaluated /\ Len(bot_log[k].orders) = 2

(***************************************************************************)
(* Claims about the depth based offering policy                            *)
(***************************************************************************)
\* evaluate has returned
Answered == dbo_out # <<>>

\* the vector evaluate returned
Output == dbo_out[1]

\* the own orders of the observation, in stored order
Own == dbo_obs.open_orders.orders

\* C25: evaluate returns the empty vector whenever the observation reports
\* at least one pending order, whatever the book, the inventory and the open
\* orders are.
C25_PendingOrdersSilenceThePolicy ==
    Answered /\ dbo_obs.pending_orders # <<>> => Output = <<>>

C25_Witness ==
    /\ Answered
    /\ dbo_obs.pending_orders # <<>>
    /\ Len(Own) = 2
    /\ Own[1].side # Own[2].side
    /\ dbo_obs.orderbook.asks # <<>>
    /\ dbo_obs.orderbook.bids # <<>>
    /\ dbo_obs.inventory = 0

\* the larger of two numbers
Max(a, b) == IF a >= b THEN a ELSE b

\* the size of the first k offers of a side that is not our own: per price,
\* what the offers of that price hold beyond the own orders at that price
PublicThrough(book, k) ==
    LET firsts == SubSeq(book, 1, k)
        prices == {firsts[i].price : i \in 1..k}
        RECURSIVE Sum(_)
        Sum(ps) ==
            IF ps = {} THEN 0
            ELSE LET price == CHOOSE q \in ps : TRUE
                 IN  Max(0, AmountAt(firsts, price) - AmountAt(Own, price))
                        + Sum(ps \ {price})
    IN  Sum(prices)

\* the price of the first offer at which the public size reaches the depth
PriceAtDepth(book, depth) ==
    LET reached == {k \in 1..Len(book) : PublicThrough(book, k) >= depth}
    IN  IF reached = {} THEN <<>>
        ELSE <<book[CHOOSE k \in reached : \A j \in reached : k <= j].price>>

\* the target price of a side, from the book walk
TargetPrice(side) ==
    LET book == IF side = "Ask" THEN dbo_obs.orderbook.asks
                ELSE dbo_obs.orderbook.bids
        found == PriceAtDepth(book, Dbo.target_depth)
    IN  IF side = "Ask"
        THEN IF found # <<>> THEN found[1] - dbo_obs.info.tick_size
             ELSE dbo_obs.info.max_order_price
        ELSE IF found # <<>> THEN found[1] + dbo_obs.info.tick_size
             ELSE dbo_obs.info.min_order_price

\* the new orders of a side in the vector returned
NewOrders(side) ==
    LET IsNew(order) == order.kind = "New" /\ order.order_side = side
    IN  SelectSeq(Output, IsNew)

\* C26: the target ask price is P - tick_size where P is the price of the
\* first ask, walking from the best price upward, at which the cumulative
\* size without the amounts attributed to own open orders is >= target_depth,
\* or max_order_price when no ask reaches the depth; the target bid price is
\* P + tick_size walking the bids from the best downward, or min_order_price.
C26_TargetPriceIsPriceAtDepth ==
    /\ NewAskPrice(Dbo, dbo_obs) = TargetPrice("Ask")
    /\ NewBidPrice(Dbo, dbo_obs) = TargetPrice("Bid")
    /\ Answered =>
        \A side \in Sides :
            \A k \in 1..Len(NewOrders(side)) :
                NewOrders(side)[k].price = TargetPrice(side)

C26_Witness ==
    /\ Answered
    /\ dbo_obs.pending_orders = <<>>
    /\ Len(dbo_obs.orderbook.asks) = 2
    /\ dbo_obs.orderbook.asks[1].amount >= Dbo.target_depth
    /\ dbo_obs.orderbook.asks[1].price = 5
    /\ dbo_obs.orderbook.asks[2].price = 6
    /\ NewOrders("Ask") # <<>>
    /\ NewOrders("Ask")[1].price = 5
    /\ dbo_obs.orderbook.bids = <<>>
    /\ NewOrders("Bid") # <<>>
    /\ NewOrders("Bid")[1].price = dbo_obs.info.min_order_price

\* the target size of a side
TargetSize(side) ==
    IF side = "Ask" THEN Dbo.max_exposure + dbo_obs.inventory
    ELSE Dbo.max_exposure - dbo_obs.inventory

\* the own orders of a side, in stored order
OwnSide(side) ==
    LET OnSide(order) == order.side = side
    IN  SelectSeq(Own, OnSide)

\* the remaining target size of a side after its first k own orders
RemainingAfter(side) ==
    LET own == OwnSide(side)
        r[k \in 0..Len(own)] ==
            IF k = 0 THEN TargetSize(side)
            ELSE IF own[k].price = TargetPrice(side) /\ own[k].amount <= r[k - 1]
                 THEN r[k - 1] - own[k].amount
                 ELSE r[k - 1]
    IN  r

\* the k-th own order of a side is kept
Kept(side, k) ==
    /\ OwnSide(side)[k].price = TargetPrice(side)
    /\ OwnSide(side)[k].amount <= RemainingAfter(side)[k - 1]

\* the ids of the own orders of a side that are not kept, in stored order
NotKeptIds(side) ==
    LET own == OwnSide(side)
        idx == [k \in 1..Len(own) |-> k]
        NotKept(k) == ~Kept(side, k)
        dropped == SelectSeq(idx, NotKept)
    IN  [k \in 1..Len(dropped) |-> own[dropped[k]].id]

\* the ids the vector returned cancels on a side, in the vector's order
CancelledIds(side) ==
    LET OfSide(order) ==
            /\ order.kind = "Cancel"
            /\ \E k \in 1..Len(Own) : Own[k].id = order.id /\ Own[k].side = side
        cancels == SelectSeq(Output, OfSide)
    IN  [k \in 1..Len(cancels) |-> cancels[k].id]

\* C27: reconciling a side over its own orders in stored order, the remaining
\* target starting at max_exposure + position (asks) or max_exposure -
\* position (bids): an own order is kept, its amount taken off the remaining
\* target, iff its price is the target price and its amount <= the remaining
\* target at that point; every other own order of the side gets a Cancel.
C27_KeepsIffPriceAndRoom ==
    Answered /\ dbo_obs.pending_orders = <<>> =>
        \A side \in Sides :
            /\ CancelledIds(side) = NotKeptIds(side)
            /\ \A k \in 1..Len(NewOrders(side)) :
                    NewOrders(side)[k].amount
                        = RemainingAfter(side)[Len(OwnSide(side))]

C27_Witness ==
    /\ Answered
    /\ dbo_obs.pending_orders = <<>>
    /\ Len(OwnSide("Ask")) = 2
    /\ Kept("Ask", 1)
    /\ OwnSide("Ask")[2].price = TargetPrice("Ask")
    /\ ~Kept("Ask", 2)
    /\ CancelledIds("Ask") = <<OwnSide("Ask")[2].id>>
    /\ RemainingAfter("Ask")[2] = TargetSize("Ask") - OwnSide("Ask")[1].amount

\* C28: after the reconciliation of a side exactly one New(Limit, side,
\* target price, remaining size) is emitted if the remaining target size is
\* >= min_order_size and none otherwise; never more than one New order per
\* side in one evaluation.
C28_OneNewOrderIffRoom ==
    Answered /\ dbo_obs.pending_orders = <<>> =>
        \A side \in Sides :
            LET remaining == RemainingAfter(side)[Len(OwnSide(side))]
            IN  NewOrders(side) =
                    IF remaining >= dbo_obs.info.min_order_size
                    THEN <<OrderCreate("Limit", side, TargetPrice(side),
                                       remaining)>>
                    ELSE <<>>

C28_Witness ==
    /\ Answered
    /\ dbo_obs.pending_orders = <<>>
    /\ Len(NewOrders("Ask")) = 1
    /\ NewOrders("Bid") = <<>>
    /\ RemainingAfter("Bid")[Len(OwnSide("Bid"))] = 1
    /\ OwnSide("Bid") # <<>>

StoredAt(id) == CHOOSE k \in 1..Len(Own) : Own[k].id = id

\* the side an order of the vector returned acts on
ActionSide(order) ==
    IF order.kind = "New" THEN order.order_side
    ELSE Own[StoredAt(order.id)].side

\* C30: in the vector returned all ask-side actions precede all bid-side
\* actions, and within a side the Cancels come in the iteration order of the
\* own orders and before the side's single New order, if any.
C30_AsksFirstCancelsBeforeNew ==
    Answered =>
        \A i, j \in 1..Len(Output) :
            i < j =>
                /\ ActionSide(Output[i]) = "Bid" =>
                        ActionSide(Output[j]) = "Bid"
                /\ ActionSide(Output[i]) = ActionSide(Output[j]) =>
                        /\ Output[i].kind = "Cancel"
                        /\ Output[j].kind = "Cancel" =>
                                StoredAt(Output[i].id) < StoredAt(Output[j].id)

C30_Witness ==
    /\ Answered
    /\ Len(Output) = 4
    /\ Output[1].kind = "Cancel"
    /\ Output[2].kind = "Cancel"
    /\ Output[3].kind = "New"
    /\ Output[4].kind = "New"
    /\ ActionSide(Output[1]) = "Ask"
    /\ ActionSide(Output[2]) = "Ask"

\* the turns of the book walk of a side of the observation
Steps(side) ==
    WalkSteps(IF side = "Ask" THEN dbo_obs.orderbook.asks
              ELSE dbo_obs.orderbook.bids,
              Dbo.target_depth, RemainingOrders(dbo_obs.open_orders), 0)

\* the first turn of a walk at a price finds the counter seeded with the sum
\* of the own amounts at that price, and an offer at a price without own
\* orders counts whole
SeededWithOwnAmounts(side) ==
    \A k \in 1..Len(Steps(side)) :
        LET step == Steps(side)[k]
            price == step.offer.price
        IN  /\ (\A j \in 1..k - 1 : Steps(side)[j].offer.price # price) =>
                    step.before =
                        IF \E i \in 1..Len(Own) : Own[i].price = price
                        THEN <<AmountAt(Own, price)>> ELSE <<>>
            /\ step.before = <<>> =>
                    step.counted = step.offer.amount /\ step.after = <<>>

\* C31 as stated: an offer larger than the counter counts with its excess and
\* zeroes the counter; any other offer counts nothing and the counter is
\* drained to zero.
C31_CounterDrainedToZero ==
    \A side \in Sides :
        /\ SeededWithOwnAmounts(side)
        /\ \A k \in 1..Len(Steps(side)) :
            LET step == Steps(side)[k]
            IN  step.before # <<>> =>
                    IF step.offer.amount > step.before[1]
                    THEN /\ step.counted = step.offer.amount - step.before[1]
                         /\ step.after = <<0>>
                    ELSE /\ step.counted = 0
                         /\ step.after = <<0>>

\* C31: walking the public book, a per-price counter seeded with the sum of
\* the own amounts at that price is applied to each offer: an offer larger
\* than the counter counts with its excess and zeroes the counter; any other
\* offer counts nothing and takes its own amount off the counter.
C31_CounterReducedByOffer ==
    \A side \in Sides :
        /\ SeededWithOwnAmounts(side)
        /\ \A k \in 1..Len(Steps(side)) :
            LET step == Steps(side)[k]
            IN  step.before # <<>> =>
                    IF step.offer.amount > step.before[1]
                    THEN /\ step.counted = step.offer.amount - step.before[1]
                         /\ step.after = <<0>>
                    ELSE /\ step.counted = 0
                         /\ step.after =
                                <<step.before[1] - step.offer.amount>>

C31_Witness ==
    /\ Answered
    /\ Len(Steps("Ask")) = 2
    /\ Steps("Ask")[1].before = <<2>>
    /\ Steps("Ask")[1].offer.amount = 1
    /\ Steps("Ask")[2].offer.price = Steps("Ask")[1].offer.price
    /\ Steps("Ask")[2].before = <<1>>
    /\ Steps("Ask")[2].counted = 1

\* the own order appears as a public offer of its price and amount
Quoted(order) ==
    LET book == SideOf(dbo_obs.orderbook, order.side)
    IN  \E k \in 1..Len(book) :
            book[k].price = order.price /\ book[k].amount = order.amount

\* the own orders are one ask and one bid, each at its side's target price
\* with the side's full target size, and each shows in the book
OwnQuotesInPlace ==
    /\ Len(Own) = 2
    /\ \A side \in Sides :
        /\ Len(OwnSide(side)) = 1
        /\ OwnSide(side)[1].price = TargetPrice(side)
        /\ OwnSide(side)[1].amount = TargetSize(side)
        /\ Quoted(OwnSide(side)[1])

\* a side of the book without the offer that shows the own order
WithoutQuote(book, order) ==
    LET shown == {k \in 1..Len(book) :
                    book[k].price = order.price /\ book[k].amount = order.amount}
        first == CHOOSE k \in shown : \A j \in shown : k <= j
    IN  IF shown = {} THEN book
        ELSE SubSeq(book, 1, first - 1) \o SubSeq(book, first + 1, Len(book))

\* the observation had we no orders: none open, none in the book
Stripped ==
    [dbo_obs EXCEPT
        !.open_orders = OpenOrders(dbo_obs.open_orders.timestamp, <<>>),
        !.orderbook = Orderbook(dbo_obs.orderbook.timestamp,
            WithoutQuote(dbo_obs.orderbook.asks, OwnSide("Ask")[1]),
            WithoutQuote(dbo_obs.orderbook.bids, OwnSide("Bid")[1]))]

\* C32: the policy is stable on its own quotes: when the own open orders are
\* exactly one ask and one bid at the target prices with the full target
\* sizes and both show as public offers at those prices, evaluate returns no
\* orders, and the target prices are those of the book without the own
\* offers.
C32_StableOnOwnQuotes ==
    OwnQuotesInPlace =>
        /\ Answered => Output = <<>>
        /\ NewAskPrice(Dbo, dbo_obs) = NewAskPrice(Dbo, Stripped)
        /\ NewBidPrice(Dbo, dbo_obs) = NewBidPrice(Dbo, Stripped)

C32_Witness ==
    /\ Answered
    /\ OwnQuotesInPlace
    /\ dbo_obs.pending_orders = <<>>
    /\ Len(dbo_obs.orderbook.asks) = 2
    /\ Len(dbo_obs.orderbook.bids) = 2

(***************************************************************************)
(* Further claims about the writers                                        *)
(***************************************************************************)
\* the direction a side is sorted in: asks upward, bids downward
Direction(side) == IF side = "Ask" THEN 1 ELSE 0 - 1

\* the other side of the book
Opposite(side) == IF side = "Ask" THEN "Bid" ELSE "Ask"

\* C33: a Create applied to a price-sorted side (asks non-decreasing, bids
\* non-increasing) leaves the side sorted, puts the new offer after every
\* offer of equal price, keeps all other offers in their relative order and
\* leaves the opposite side unchanged.
C33_CreateKeepsSideSorted ==
    \A op \in CreateOps :
        LET before == SideOf(orderbook, op.side)
            result == ApplyCreate(orderbook, op)
            after == SideOf(result.book, op.side)
        IN  Ordered(before, Direction(op.side)) =>
                /\ result.ok
                /\ Ordered(after, Direction(op.side))
                /\ Len(after) = Len(before) + 1
                /\ \E index \in 1..Len(after) :
                        /\ after[index] = Offer(op.id, op.price, op.amount)
                        /\ RemoveAt(after, index) = before
                        /\ \A j \in index + 1..Len(after) :
                                after[j].price # op.price
                /\ SideOf(result.book, Opposite(op.side))
                        = SideOf(orderbook, Opposite(op.side))

C33_Witness ==
    /\ last_applied # <<>>
    /\ Len(orderbook.bids) = 2
    /\ orderbook.bids[1].price = orderbook.bids[2].price
    /\ orderbook.bids[1].id # orderbook.bids[2].id
    /\ Len(orderbook.asks) = 1

BotWaits == bot_pc \in {"warmup", "running"}

\* C35: when a session's updater thread has stopped running (here: it
\* panicked on a writer error), the decision loop eventually observes a
\* receive error on that session's topics and terminates with an error,
\* instead of waiting forever on a channel that will never deliver again.
C35_DeadSessionEndsTheLoop ==
    (mk_pc = "panicked" /\ BotWaits) ~> (bot_pc = "returned_err")

\* the market topics never yield a receive error while run is running: the
\* BitMEXMarket struct the Bot owns keeps the Senders alive
MarketTopicsStayConnected ==
    /\ bot_pc # "returned_err"
    /\ bot_pc # "dropped" => bot_closed = {}

\* the updater is dead, every message is consumed and run waits in select
WaitsOnDeadSession ==
    /\ mk_pc = "panicked"
    /\ BotWaits
    /\ \A topic \in Topics : bot_chan[topic] = <<>>
    /\ \A topic \in MarketTopics : bot_sent[topic] = Len(PublishedOn(topic))

\* the iterations of the loop that received a message
Iterations == {i \in 1..Len(bot_log) : bot_log[i].ok}

\* the topics whose receiver lost exactly its head in this step
TookHeadOf ==
    {topic \in Topics :
        bot_chan[topic] # <<>> /\ bot_chan'[topic] = Tail(bot_chan[topic])}

\* C36: after warmup the loop performs at most num_iteration iterations,
\* each consuming exactly one message from exactly one of the four channels;
\* once num_iteration messages were received without a receive error, run
\* returns Ok, after exactly num_iteration messages, and it has evaluated
\* the policy exactly once per orderbook message among them.
C36_LoopTakesNumIterationMessages ==
    /\ [](/\ bot_iter <= NumIteration
          /\ Cardinality(Iterations) = bot_iter
          /\ Cardinality({i \in Iterations : bot_log[i].evaluated})
               = Cardinality({i \in Iterations :
                                 bot_log[i].topic = "orderbook"})
          /\ \A i \in 1..Len(bot_log) : bot_log[i].evaluated => bot_log[i].ok
          /\ bot_pc = "returned_ok"
               => /\ bot_iter = NumIteration
                  /\ Len(bot_log) = NumIteration
                  /\ Iterations = 1..NumIteration)
    /\ [][bot_pc = "running" /\ bot_log' # bot_log
            => LET last == bot_log'[Len(bot_log')]
               IN  /\ Len(bot_log') = Len(bot_log) + 1
                   /\ last.ok
                        => /\ bot_iter' = bot_iter + 1
                           /\ TookHeadOf = {last.topic}
                           /\ \A topic \in Topics \ {last.topic} :
                                  bot_chan'[topic] = bot_chan[topic]
                   /\ ~last.ok => UNCHANGED <<bot_chan, bot_iter>>]_vars
    /\ [][bot_chan' # bot_chan /\ bot_pc = "running"
            /\ (\E topic \in Topics :
                    Len(bot_chan'[topic]) < Len(bot_chan[topic]))
            => bot_log' # bot_log /\ bot_iter < NumIteration]_vars
    /\ (bot_pc = "running" /\ bot_iter = NumIteration)
           ~> (bot_pc = "returned_ok")

\* run returned Ok after an orderbook message and a message of another topic
C36_Witness ==
    /\ bot_pc = "returned_ok"
    /\ Len(bot_log) = NumIteration
    /\ \E i, j \in 1..Len(bot_log) :
          /\ bot_log[i].topic = "orderbook" /\ bot_log[i].evaluated
          /\ bot_log[j].topic # "orderbook" /\ ~bot_log[j].evaluated

\* the submitted orders that still await their broker reply, unexpired
InFlightTasks == {i \in 1..Len(tasks) : AwaitingReply(i)}

\* C37: outside test mode, once the orders of one evaluation have been
\* submitted, every later evaluation made while one of them still awaits its
\* broker reply and has not expired is made on a non-empty pending snapshot.
C37_InFlightOrdersAreInTheSnapshot ==
    [][/\ ~bot_test
       /\ InFlightTasks # {}
       /\ Len(bot_log') = Len(bot_log) + 1
       /\ bot_log'[Len(bot_log')].evaluated
       => bot_log'[Len(bot_log')].observation.pending_orders # <<>>]_vars

\* an evaluation was made on an empty pending snapshot although an order
\* submitted by an earlier evaluation had no broker reply yet
EvaluatedBeforeThePush ==
    \E i, j \in 1..Len(bot_log) :
        /\ i < j
        /\ bot_log[i].submitted # <<>>
        /\ bot_log[j].evaluated
        /\ bot_log[j].observation.pending_orders = <<>>
        /\ \A k \in 1..Len(tasks) : tasks[k].pc = "push"

(***************************************************************************)
(* Further claims about the pub/sub bus                                    *)
(***************************************************************************)
\* the messages a subscription was handed and holds, in the order of receipt
Stream(id) == consumed[id] \o queue[id]

\* the place of message m in the stream of a subscription that holds it
PlaceIn(id, m) == CHOOSE k \in 1..Len(Stream(id)) : Stream(id)[k] = m

\* C38: each publish's fan-out is atomic with respect to other publishes,
\* subscribes and unsubscribes: any two subscribers that both receive m1 and
\* m2 receive them in the same relative order, and a subscriber registered
\* when a publish starts (its Receiver not dropped) receives that message,
\* the publish touching nobody else and registering nobody.
C38_FanOutIsAtomic ==
    /\ [](\A a, b \in SubIds : \A m1, m2 \in Msgs :
             {m1, m2} \subseteq Ids(Stream(a)) \cap Ids(Stream(b))
                 => (PlaceIn(a, m1) < PlaceIn(a, m2)
                        <=> PlaceIn(b, m1) < PlaceIn(b, m2)))
    /\ [][published' # published
            => LET msg == published'[Len(published')]
               IN  /\ Len(published') = Len(published) + 1
                   /\ \A id \in SubIds :
                          queue'[id] =
                              IF id \in subscribers /\ alive[id]
                              THEN Append(queue[id], msg)
                              ELSE queue[id]
                   /\ ps_nonce' = ps_nonce
                   /\ subscribers' =
                          {id \in subscribers : alive[id]}]_vars

\* two subscriptions have each received the same two messages, one of them
\* having consumed the first already
C38_Witness ==
    \E a, b \in SubIds :
        /\ a # b
        /\ Len(published) >= 2
        /\ Stream(a) = <<published[1], published[2]>>
        /\ Stream(b) = <<published[1], published[2]>>
        /\ consumed[a] = <<published[1]>>
        /\ {a, b} \subseteq subscribers

(***************************************************************************)
(* Further claims about the open-orders writer                             *)
(***************************************************************************)
\* the OrderIds of a list of orders are pairwise distinct
DistinctIds(orders) ==
    \A i, j \in 1..Len(orders) : i # j => orders[i].id # orders[j].id

\* C39: starting from an OpenOrders whose OrderIds are pairwise distinct,
\* every sequence of Create, Update, Delete and Execution ops, successful or
\* failing, leaves the OrderIds pairwise distinct, and an Execution leaves no
\* order with remaining amount zero behind.
C39_OrderIdsStayDistinct ==
    /\ [](DistinctIds(open_orders.orders))
    /\ [][/\ DistinctIds(open_orders.orders)
          /\ oo_result'.op \in {"Create", "Update", "Delete", "Execution"}
          => /\ DistinctIds(open_orders'.orders)
             /\ oo_result'.returned # "Ok"
                    => open_orders'.orders = open_orders.orders
             /\ oo_result'.op = "Execution"
                    => \A k \in 1..Len(open_orders'.orders) :
                           open_orders'.orders[k].amount # 0]_vars

\* a Create of an id that is already there was rejected, two orders being open
C39_Witness ==
    /\ oo_result.op = "Create"
    /\ oo_result.returned # "Ok"
    /\ Len(open_orders.orders) = 2
    /\ DistinctIds(open_orders.orders)

\* an Execution has taken away the order it emptied, another staying open
EmptiedOrderGone ==
    /\ oo_result.op = "Execution"
    /\ oo_result.returned = "Ok"
    /\ Len(open_orders.orders) = 1
    /\ open_orders.orders[1].amount = 2

(***************************************************************************)
(* Further claims about the policy                                         *)
(***************************************************************************)
\* the own orders of a side the vector returned does not cancel
KeptOrders(side) ==
    LET NotCancelled(order) ==
            \A k \in 1..Len(Output) :
                ~(Output[k].kind = "Cancel" /\ Output[k].id = order.id)
    IN  SelectSeq(OwnSide(side), NotCancelled)

\* the sum of the amounts of a sequence of orders
RECURSIVE SumAmounts(_)
SumAmounts(orders) ==
    IF orders = <<>> THEN 0
    ELSE Head(orders).amount + SumAmounts(Tail(orders))

\* what a side quotes after the evaluation: the kept own orders and the New
Quoting(side) == SumAmounts(KeptOrders(side)) + SumAmounts(NewOrders(side))

\* C40 as stated: for each side and every observation without pending
\* orders, the amounts of the own orders kept plus the amount of the New
\* order emitted never exceed the side's target size, and equal it whenever
\* a New order is emitted.
C40_QuotedNeverExceedsTarget ==
    Answered /\ dbo_obs.pending_orders = <<>> =>
        \A side \in Sides :
            /\ Quoting(side) <= TargetSize(side)
            /\ NewOrders(side) # <<>> => Quoting(side) = TargetSize(side)

\* C40: for each side and every observation without pending orders, the
\* amounts of the own orders kept plus the amount of the New order emitted
\* never exceed the side's target size when that size is >= 0, and equal it
\* whenever a New order is emitted; when the target size is negative nothing
\* is kept and nothing is emitted, the sum being 0.
C40_QuotedNeverExceedsTargetOrIsNothing ==
    Answered /\ dbo_obs.pending_orders = <<>> =>
        \A side \in Sides :
            /\ TargetSize(side) >= 0 => Quoting(side) <= TargetSize(side)
            /\ TargetSize(side) < 0
                   => KeptOrders(side) = <<>> /\ NewOrders(side) = <<>>
            /\ NewOrders(side) # <<>> => Quoting(side) = TargetSize(side)

\* an own ask is kept and a New ask tops it up to the target size, while the
\* bid side, its target size negative, keeps and emits nothing
C40_Witness ==
    /\ Answered
    /\ dbo_obs.pending_orders = <<>>
    /\ Len(KeptOrders("Ask")) = 1
    /\ Len(NewOrders("Ask")) = 1
    /\ Quoting("Ask") = TargetSize("Ask")
    /\ TargetSize("Bid") < 0
    /\ OwnSide("Bid") # <<>>
    /\ Quoting("Bid") = 0

====
